---- MODULE Spec2Model ----
(***************************************************************************)
(* State-machine model of the metric aggregation engine and of the OTLP    *)
(* exporters' retry loop of opentelemetry-python.                          *)
(*                                                                         *)
(* Python's Optional values are modelled as sequences of length <= 1:      *)
(* None is <<>> and a present value x is <<x>>.                            *)
(***************************************************************************)
EXTENDS Integers, Sequences, FiniteSets, TLC

(***************************************************************************)
(* Bounds of the model.                                                    *)
(***************************************************************************)
\* collect calls made on one aggregator
MaxCollects == 3
\* aggregate calls made between two collect calls
MaxAggregates == 2
\* measurement values handed to aggregate
Values == {1, 2}
\* attempts made by one export call
MaxAttempts == 12
\* length of a finite (mocked) backoff delay sequence
MaxMockedDelays == 2
\* threads calling aggregate and collect on one aggregator
NumThreads == 2
\* aggregate and collect calls made on one explicit-bucket histogram
MaxHistAggregates == 3
MaxHistCollects == 3
\* aggregate calls made on one exponential histogram, and the collect and
\* _merge_from calls made on it, taken together
MaxExpoAggregates == 2
MaxExpoCollectsAndMerges == 2
MaxStartTime == 2
MaxDownscales == 2
NumPatchers == 2
MaxPatchCalls == 4
NumProxyMeters == 2
MaxMeterCalls == 7
NumObservables == 3
MaxPasses == 2
MaxAttributes == 3
MaxProtoAggregates == 3
MaxProtoCollects == 3
MaxBucketsLen == 3
MaxBucketCount == 2
MaxBy == 2
MaxBucketDownscales == 2
MaxIndexMagnitude == 8
MaxChangeSize == 3
MaxLastValueCalls == 5
NumProducers == 2
MaxProducerCalls == 3
MaxCollectorCalls == 2
MaxGetterCalls == 3

(***************************************************************************)
(* AggregationTemporality (IntEnum).                                       *)
(***************************************************************************)
UNSPECIFIED == 0
DELTA == 1
CUMULATIVE == 2

None == <<>>
Some(x) == <<x>>
IsNone(o) == o = <<>>
Get(o) == o[1]

RECURSIVE SeqSum(_)
SeqSum(s) == IF s = <<>> THEN 0 ELSE Head(s) + SeqSum(Tail(s))

VARIABLES
    sum,                  \* the _SumAggregation object
    preferred_temporality,\* the temporality the reader asks collect for
    clock,                \* nanosecond clock; every call happens later than the last
    interval,             \* history: number and total of the aggregate calls
                          \* made since the last collect
    collected             \* history: one entry per collect call made

sumVars == <<sum, preferred_temporality, clock, interval, collected>>

VARIABLES
    export,               \* the export call: exporter, backoff generator, how it ended
    attempts,             \* history: one entry per call of the client's Export
    slept                 \* history: the durations passed to sleep

exportVars == <<export, attempts, slept>>

VARIABLES
    lockedKind,           \* the class of the aggregator the threads share
    lock,                 \* _lock: 0 when free, else the thread holding it
    threads               \* per thread: the call it is in, its place in it, and
                          \* the attribute it is reading or writing just now

lockVars == <<lockedKind, lock, threads>>

VARIABLES
    hist,                 \* the _ExplicitBucketHistogramAggregation object
    hist_temporality,     \* aggregation_temporality the reader collects with
    histEver,             \* every measurement since creation, per bucket
    histLast              \* the last call made: its input and what it returned

histVars == <<hist, hist_temporality, histEver, histLast>>

VARIABLES
    expo,                 \* the _ExponentialBucketHistogramAggregation object
    expo_temporality,     \* aggregation_temporality the reader collects with
    expoInterval,         \* the measurements made since the previous collect
                          \* and since creation, and the calls made
    expoLast              \* the last call made: its input, what it returned
                          \* or raised

expoVars == <<expo, expo_temporality, expoInterval, expoLast>>

VARIABLES
    created,              \* the last DefaultAggregation._create_aggregation call
    rescaled              \* an exponential aggregator and the last _downscale
                          \* call made on it

defaultVars == <<created, rescaled>>

VARIABLES
    is_patched,           \* per patcher of patcher/__init__.py: _is_patched
    protected,            \* base_patcher.py: the _protected attribute of the
                          \* functions patch and unpatch of the decorated class
    ran,                  \* history: per patcher, the underlying methods run
    patchLast             \* the last patch or unpatch call and what it did

patchVars == <<is_patched, protected, ran, patchLast>>

VARIABLES
    meter_provider,       \* _METER_PROVIDER
    proxy_meter_provider, \* _PROXY_METER_PROVIDER: whether it was created
    environ,              \* whether OTEL_PYTHON_METER_PROVIDER is in environ
    proxy_meters,         \* the ProxyMeter objects: _real_meter, and history:
                          \* the meters their create_ calls were forwarded to
    meterLast             \* the last call of the metrics API and its outcome

meterVars ==
    <<meter_provider, proxy_meter_provider, environ, proxy_meters, meterLast>>

VARIABLES
    callbacks,            \* per observable instrument: its generator _callback
    collection            \* the collecting thread: the pass it is in, the
                          \* instrument it is at and whether it is inside next

observeVars == <<callbacks, collection>>

VARIABLES
    span_attributes,      \* sdk_span.attributes: the values, in the order of items()
    translation           \* collector_span_kwargs["attributes"], what was logged,
                          \* and whether _translate_spans has run

translateVars == <<span_attributes, translation>>

VARIABLES
    proto,                \* the SynchronousSumAggregation object of sdk/_metrics
    protoClock,           \* _time_ns
    protoSeen             \* history: the measurements of the interval, the
                          \* calls made and the point the last _collect returned

protoVars == <<proto, protoClock, protoSeen>>

VARIABLES
    bucket_set,           \* a Buckets object
    bucketCalls           \* the downscale calls made on it: the last `by`

bucketVars == <<bucket_set, bucketCalls>>

VARIABLES
    scaling               \* a call of _change_scale: its locals, its arguments
                          \* and whether it has returned

scalingVars == <<scaling>>

VARIABLES
    last_value,           \* the _LastValueAggregation object
    lastSeen              \* history: the value of the latest aggregate call
                          \* since the previous collect, and the last collect

lastValueVars == <<last_value, lastSeen>>

VARIABLES
    shared,               \* a _SumAggregation of a synchronous instrument that
                          \* threads share: _value and the holder of _lock
    workers,              \* per thread: where it is in aggregate or collect,
                          \* and its locals
    tally                 \* history: the values of the aggregate calls that
                          \* returned, the values of the points emitted, the
                          \* calls made

concSumVars == <<shared, workers, tally>>

VARIABLES
    shared_hist,          \* an _ExplicitBucketHistogramAggregation with the
                          \* boundaries (1,) that threads share: _sum, the
                          \* list objects made for _bucket_counts and the one
                          \* the attribute names now
    hist_workers,         \* per thread: where it is in aggregate or collect,
                          \* and its locals
    hist_tally            \* history: the aggregate calls that returned, the
                          \* points emitted, the calls made

concHistVars == <<shared_hist, hist_workers, hist_tally>>

VARIABLES
    globals,              \* _METER_PROVIDER and _PROXY_METER_PROVIDER of
                          \* opentelemetry.metrics while threads call into the
                          \* module, and whether the environment names a
                          \* provider
    setters,              \* per provider: where the thread that passes it to
                          \* set_meter_provider is
    getter,               \* where the thread that calls get_meter_provider is,
                          \* and the calls it made
    observed              \* history: the real providers get_meter_provider
                          \* has returned, in order

raceVars == <<globals, setters, getter, observed>>

vars == <<sumVars, exportVars, lockVars, histVars, expoVars, defaultVars,
    patchVars, meterVars, observeVars, translateVars, protoVars, bucketVars, scalingVars, lastValueVars, concSumVars, concHistVars, raceVars>>

notSumVars == <<exportVars, lockVars, histVars, expoVars, defaultVars,
    patchVars, meterVars, observeVars, translateVars, protoVars, bucketVars, scalingVars, lastValueVars, concSumVars, concHistVars, raceVars>>
notExportVars == <<sumVars, lockVars, histVars, expoVars, defaultVars,
    patchVars, meterVars, observeVars, translateVars, protoVars, bucketVars, scalingVars, lastValueVars, concSumVars, concHistVars, raceVars>>
notLockVars == <<sumVars, exportVars, histVars, expoVars, defaultVars,
    patchVars, meterVars, observeVars, translateVars, protoVars, bucketVars, scalingVars, lastValueVars, concSumVars, concHistVars, raceVars>>
notHistVars == <<sumVars, exportVars, lockVars, expoVars, defaultVars,
    patchVars, meterVars, observeVars, translateVars, protoVars, bucketVars, scalingVars, lastValueVars, concSumVars, concHistVars, raceVars>>
notExpoVars == <<sumVars, exportVars, lockVars, histVars, defaultVars,
    patchVars, meterVars, observeVars, translateVars, protoVars, bucketVars, scalingVars, lastValueVars, concSumVars, concHistVars, raceVars>>
notDefaultVars == <<sumVars, exportVars, lockVars, histVars, expoVars,
    patchVars, meterVars, observeVars, translateVars, protoVars, bucketVars, scalingVars, lastValueVars, concSumVars, concHistVars, raceVars>>
notPatchVars == <<sumVars, exportVars, lockVars, histVars, expoVars,
    defaultVars, meterVars, observeVars, translateVars, protoVars, bucketVars, scalingVars, lastValueVars, concSumVars, concHistVars, raceVars>>
notMeterVars == <<sumVars, exportVars, lockVars, histVars, expoVars,
    defaultVars, patchVars, observeVars, translateVars, protoVars, bucketVars, scalingVars, lastValueVars, concSumVars, concHistVars, raceVars>>
notObserveVars == <<sumVars, exportVars, lockVars, histVars, expoVars,
    defaultVars, patchVars, meterVars, translateVars, protoVars, bucketVars, scalingVars, lastValueVars, concSumVars, concHistVars, raceVars>>
notTranslateVars == <<sumVars, exportVars, lockVars, histVars, expoVars,
    defaultVars, patchVars, meterVars, observeVars, protoVars, bucketVars, scalingVars, lastValueVars, concSumVars, concHistVars, raceVars>>
notProtoVars == <<sumVars, exportVars, lockVars, histVars, expoVars,
    defaultVars, patchVars, meterVars, observeVars, translateVars, bucketVars, scalingVars, lastValueVars, concSumVars, concHistVars, raceVars>>
notBucketVars == <<sumVars, exportVars, lockVars, histVars, expoVars,
    defaultVars, patchVars, meterVars, observeVars, translateVars, protoVars, scalingVars, lastValueVars, concSumVars, concHistVars, raceVars>>
notScalingVars == <<sumVars, exportVars, lockVars, histVars, expoVars,
    defaultVars, patchVars, meterVars, observeVars, translateVars, protoVars, bucketVars, lastValueVars, concSumVars, concHistVars, raceVars>>
notLastValueVars == <<sumVars, exportVars, lockVars, histVars, expoVars,
    defaultVars, patchVars, meterVars, observeVars, translateVars, protoVars, bucketVars, scalingVars, concSumVars, concHistVars, raceVars>>
notConcSumVars == <<sumVars, exportVars, lockVars, histVars, expoVars,
    defaultVars, patchVars, meterVars, observeVars, translateVars, protoVars, bucketVars, scalingVars, lastValueVars, concHistVars, raceVars>>
notConcHistVars == <<sumVars, exportVars, lockVars, histVars, expoVars,
    defaultVars, patchVars, meterVars, observeVars, translateVars, protoVars, bucketVars, scalingVars, lastValueVars, concSumVars, raceVars>>
notRaceVars == <<sumVars, exportVars, lockVars, histVars, expoVars,
    defaultVars, patchVars, meterVars, observeVars, translateVars, protoVars,
    bucketVars, scalingVars, lastValueVars, concSumVars, concHistVars>>

(***************************************************************************)
(* OTLPSpanExporter.export and OTLPMetricsExporter.export                  *)
(***************************************************************************)
\* expo(max_value=900)
ExpoMaxValue == 900

Expo(n) == IF 2 ^ n < ExpoMaxValue THEN 2 ^ n ELSE ExpoMaxValue

\* The generator that export iterates over: expo(max_value=900), or the
\* finite list that a patched expo returns.
ExpoGenerator == [mocked |-> FALSE, values |-> <<>>, n |-> 0]
MockedGenerator(values) == [mocked |-> TRUE, values |-> values, n |-> 0]
GenHasNext(g) == ~g.mocked \/ g.n < Len(g.values)
GenValue(g) == IF g.mocked THEN g.values[g.n + 1] ELSE Expo(g.n)
GenAdvance(g) == [g EXCEPT !.n = g.n + 1]

\* the statuses for which the except clause sleeps and continues
RetryableCodes ==
    {"CANCELLED", "DEADLINE_EXCEEDED", "PERMISSION_DENIED", "UNAUTHENTICATED",
     "RESOURCE_EXHAUSTED", "ABORTED", "OUT_OF_RANGE", "UNAVAILABLE",
     "DATA_LOSS"}

\* the statuses the peer answers with in the model
PeerCodes == {"UNAVAILABLE", "INVALID_ARGUMENT", "OK"}
\* the retry delay of the RetryInfo in the trailing metadata, when there is one
PeerRetryDelays == {None, Some(4)}

\* SpanExportResult and MetricsExportResult
ExportResultMembers == {"SUCCESS", "FAILURE"}

\* How one pass of the loop body ends.
Return(value) == [kind |-> "return", value |-> value, sleep |-> None]
Raise(exception) == [kind |-> "raise", value |-> exception, sleep |-> None]
SleepAndContinue(seconds) ==
    [kind |-> "continue", value |-> "", sleep |-> Some(seconds)]

\* return <enum>.<name>: looking up a name the enum does not have raises
ReturnMember(name) ==
    IF name \in ExportResultMembers THEN Return(name)
    ELSE Raise("AttributeError")

\* OTLPSpanExporter.export, the try block when Export returns a response
SpanOnResponse == ReturnMember("SUCCESS")

\* OTLPSpanExporter.export, except RpcError as error: the clause starts with
\* a bare raise, so nothing after it runs
SpanOnRpcError(code, retry_delay, delay) == Raise("RpcError")

\* OTLPMetricsExporter.export, the try block when Export returns (self.client
\* is taken to be the stub that __init__ stores as self._client)
MetricsOnResponse == ReturnMember("SUCESS")

\* OTLPMetricsExporter.export, except RpcError as error
MetricsOnRpcError(code, retry_delay, delay) ==
    IF code \in RetryableCodes THEN SleepAndContinue(delay)
    ELSE IF code = "OK" THEN ReturnMember("SUCESS")
    ELSE ReturnMember("FAILURE")

OnResponse(exporter) ==
    IF exporter = "span" THEN SpanOnResponse ELSE MetricsOnResponse

OnRpcError(exporter, code, retry_delay, delay) ==
    IF exporter = "span" THEN SpanOnRpcError(code, retry_delay, delay)
    ELSE MetricsOnRpcError(code, retry_delay, delay)

\* the export call after a pass of the loop body that ended as `end`
ExportAfter(e, end) ==
    IF end.kind = "continue"
    THEN [e EXCEPT !.gen = GenAdvance(e.gen)]
    ELSE [e EXCEPT !.gen = GenAdvance(e.gen),
                   !.status = IF end.kind = "return" THEN "returned" ELSE "raised",
                   !.value = end.value]

ExportInit ==
    /\ export = [exporter |-> "span", gen |-> ExpoGenerator,
                 status |-> "idle", value |-> ""]
    /\ attempts = <<>>
    /\ slept = <<>>

\* export is called, on either exporter, with expo as it is or patched
ExportBegin ==
    /\ export.status = "idle"
    /\ \E exporter \in {"span", "metrics"} :
       \E g \in {ExpoGenerator}
                  \cup {MockedGenerator([i \in 1..k |-> Expo(i - 1)]) :
                           k \in 1..MaxMockedDelays} :
          export' = [exporter |-> exporter, gen |-> g,
                     status |-> "running", value |-> ""]
    /\ UNCHANGED <<attempts, slept>>
    /\ UNCHANGED notExportVars

\* one pass of the loop in which Export returns a response
ExportAttemptResponse ==
    /\ export.status = "running"
    /\ GenHasNext(export.gen)
    /\ Len(attempts) < MaxAttempts
    /\ LET delay == GenValue(export.gen) IN
          /\ attempts' = Append(attempts,
                                [error |-> FALSE, code |-> "OK",
                                 retry_delay |-> None, delay |-> delay])
          /\ export' = ExportAfter(export, OnResponse(export.exporter))
    /\ UNCHANGED slept
    /\ UNCHANGED notExportVars

\* one pass of the loop in which Export raises RpcError
ExportAttemptRpcError ==
    /\ export.status = "running"
    /\ GenHasNext(export.gen)
    /\ Len(attempts) < MaxAttempts
    /\ \E code \in PeerCodes, retry_delay \in PeerRetryDelays :
       LET delay == GenValue(export.gen)
           end == OnRpcError(export.exporter, code, retry_delay, delay)
       IN /\ attempts' = Append(attempts,
                                [error |-> TRUE, code |-> code,
                                 retry_delay |-> retry_delay, delay |-> delay])
          /\ slept' = slept \o end.sleep
          /\ export' = ExportAfter(export, end)
    /\ UNCHANGED notExportVars

\* the generator is exhausted: the for loop ends and export falls off its end
ExportExhausted ==
    /\ export.status = "running"
    /\ ~GenHasNext(export.gen)
    /\ export' = [export EXCEPT !.status = "returned", !.value = "None"]
    /\ UNCHANGED <<attempts, slept>>
    /\ UNCHANGED notExportVars

ExportNext ==
    \/ ExportBegin
    \/ ExportAttemptResponse
    \/ ExportAttemptRpcError
    \/ ExportExhausted

(***************************************************************************)
(* NumberDataPoint                                                         *)
(***************************************************************************)
NumberDataPoint(start_time_unix_nano, time_unix_nano, value) ==
    [start_time_unix_nano |-> start_time_unix_nano,
     time_unix_nano |-> time_unix_nano,
     value |-> value]

(***************************************************************************)
(* _SumAggregation                                                         *)
(***************************************************************************)
\* __init__ that starts every aggregator at 0
SumAggregationNewAtZero(instrument_temporality, start_time_unix_nano) ==
    [instrument_temporality |-> instrument_temporality,
     start_time_unix_nano |-> start_time_unix_nano,
     value |-> Some(0),
     previous_point |-> None]

SumAggregationNew(instrument_temporality, start_time_unix_nano) ==
    [instrument_temporality |-> instrument_temporality,
     start_time_unix_nano |-> start_time_unix_nano,
     value |-> IF instrument_temporality = DELTA THEN Some(0) ELSE None,
     previous_point |-> None]

SumAggregateOverwrites(self, v) == [self EXCEPT !.value = Some(v)]

SumAggregateValue(self, v) ==
    [self EXCEPT !.value =
        Some((IF IsNone(self.value) THEN 0 ELSE Get(self.value)) + v)]

\* The locked section of collect: what it reads (None when collect returns
\* None from inside the lock) and the object it leaves.
SumReadKeepsValue(self, collection_start_nano) ==
    IF self.instrument_temporality = DELTA
    THEN [read |-> Some([value |-> Get(self.value),
                         start_time_unix_nano |-> self.start_time_unix_nano]),
          self |-> [self EXCEPT !.start_time_unix_nano = collection_start_nano]]
    ELSE IF IsNone(self.value)
         THEN [read |-> None, self |-> self]
         ELSE [read |-> Some([value |-> Get(self.value),
                              start_time_unix_nano |-> self.start_time_unix_nano]),
               self |-> self]

SumReadKeepsStart(self, collection_start_nano) ==
    IF self.instrument_temporality = DELTA
    THEN [read |-> Some([value |-> Get(self.value),
                         start_time_unix_nano |-> self.start_time_unix_nano]),
          self |-> [self EXCEPT !.value = Some(0)]]
    ELSE IF IsNone(self.value)
         THEN [read |-> None, self |-> self]
         ELSE [read |-> Some([value |-> Get(self.value),
                              start_time_unix_nano |-> self.start_time_unix_nano]),
               self |-> [self EXCEPT !.value = None]]

SumReadAndReset(self, collection_start_nano) ==
    IF self.instrument_temporality = DELTA
    THEN [read |-> Some([value |-> Get(self.value),
                         start_time_unix_nano |-> self.start_time_unix_nano]),
          self |-> [self EXCEPT !.value = Some(0),
                                !.start_time_unix_nano = collection_start_nano]]
    ELSE IF IsNone(self.value)
         THEN [read |-> None, self |-> self]
         ELSE [read |-> Some([value |-> Get(self.value),
                              start_time_unix_nano |-> self.start_time_unix_nano]),
               self |-> [self EXCEPT !.value = None]]

\* The temporality conversion of collect: the point returned, which is also
\* the point stored as _previous_point.
SumConvertDropsPrevious(self, current_point, aggregation_temporality) ==
    IF IsNone(self.previous_point)
       \/ self.instrument_temporality = aggregation_temporality
    THEN current_point
    ELSE IF aggregation_temporality = DELTA
         THEN NumberDataPoint(Get(self.previous_point).time_unix_nano,
                              current_point.time_unix_nano,
                              current_point.value - Get(self.previous_point).value)
         ELSE NumberDataPoint(current_point.start_time_unix_nano,
                              current_point.time_unix_nano,
                              current_point.value)

SumConvert(self, current_point, aggregation_temporality) ==
    IF IsNone(self.previous_point)
       \/ self.instrument_temporality = aggregation_temporality
    THEN current_point
    ELSE IF aggregation_temporality = DELTA
         THEN NumberDataPoint(Get(self.previous_point).time_unix_nano,
                              current_point.time_unix_nano,
                              current_point.value - Get(self.previous_point).value)
         ELSE NumberDataPoint(Get(self.previous_point).start_time_unix_nano,
                              current_point.time_unix_nano,
                              current_point.value + Get(self.previous_point).value)

\* collect: [result |-> the Optional point returned, self |-> the object after]
SumCollectResult(self, aggregation_temporality, collection_start_nano) ==
    LET locked == SumReadAndReset(self, collection_start_nano) IN
    IF IsNone(locked.read)
    THEN [result |-> None, self |-> locked.self]
    ELSE LET current_point ==
                 NumberDataPoint(Get(locked.read).start_time_unix_nano,
                                 collection_start_nano,
                                 Get(locked.read).value)
             point == SumConvert(locked.self, current_point,
                                 aggregation_temporality)
         IN [result |-> Some(point),
             self |-> [locked.self EXCEPT !.previous_point = Some(point)]]

NoAggregates == [n |-> 0, total |-> 0]

SumInit ==
    /\ \E t \in {DELTA, CUMULATIVE} : sum = SumAggregationNew(t, 0)
    /\ preferred_temporality \in {DELTA, CUMULATIVE}
    /\ clock = 0
    /\ interval = NoAggregates
    /\ collected = <<>>

\* the sum aggregator left as constructed, for the specifications of the
\* other components
SumParked ==
    /\ sum = SumAggregationNew(DELTA, 0)
    /\ preferred_temporality = DELTA
    /\ clock = 0
    /\ interval = NoAggregates
    /\ collected = <<>>

SumAggregate ==
    /\ interval.n < MaxAggregates
    /\ \E v \in Values :
          /\ sum' = SumAggregateValue(sum, v)
          /\ interval' = [n |-> interval.n + 1, total |-> interval.total + v]
    /\ clock' = clock + 1
    /\ UNCHANGED <<preferred_temporality, collected>>
    /\ UNCHANGED notSumVars

SumCollect ==
    /\ Len(collected) < MaxCollects
    /\ clock' = clock + 1
    /\ LET r == SumCollectResult(sum, preferred_temporality, clock') IN
          /\ sum' = r.self
          /\ collected' = Append(collected,
                                 [aggregated |-> interval,
                                  time |-> clock',
                                  result |-> r.result])
    /\ interval' = NoAggregates
    /\ UNCHANGED preferred_temporality
    /\ UNCHANGED notSumVars

SumNext == SumAggregate \/ SumCollect

(***************************************************************************)
(* Locking discipline of aggregate and collect: each method as the         *)
(* sequence of its lock operations and of its accesses to the mutable      *)
(* attributes of the aggregator, in program order.                         *)
(***************************************************************************)
AggregatorKinds == {"sum", "last_value", "explicit", "exponential"}

\* _SumAggregation.aggregate
SumAggregateSteps == <<"acquire", "_value", "release">>

\* _SumAggregation.collect: _previous_point is read and written after the
\* with block
SumCollectSteps ==
    <<"acquire", "_value", "_start_time_unix_nano", "release",
      "_previous_point">>

\* _LastValueAggregation.aggregate and collect
LastValueAggregateSteps == <<"acquire", "_value", "release">>
LastValueCollectSteps == <<"acquire", "_value", "release">>

\* _ExplicitBucketHistogramAggregation.aggregate: no with block
ExplicitAggregateSteps == <<"_min", "_max", "_sum", "_bucket_counts">>

\* _ExplicitBucketHistogramAggregation.collect
ExplicitCollectSteps ==
    <<"acquire", "_bucket_counts", "_start_time_unix_nano", "_sum", "_max",
      "_min", "release", "_previous_point">>

\* _ExponentialBucketHistogramAggregation.aggregate (_update_by_incr): no
\* with block
ExponentialAggregateSteps ==
    <<"_min", "_max", "_count", "_zero_count", "_sum", "_positive">>

\* _ExponentialBucketHistogramAggregation.collect: the point is built from
\* the bucket sets and _zero_count after the with block
ExponentialCollectSteps ==
    <<"acquire", "_negative", "_positive", "_start_time_unix_nano", "_sum",
      "_max", "_min", "release", "_negative", "_positive", "_zero_count",
      "_previous_point">>

Steps(kind, op) ==
    IF kind = "sum"
    THEN (IF op = "aggregate" THEN SumAggregateSteps ELSE SumCollectSteps)
    ELSE IF kind = "last_value"
    THEN (IF op = "aggregate" THEN LastValueAggregateSteps
          ELSE LastValueCollectSteps)
    ELSE IF kind = "explicit"
    THEN (IF op = "aggregate" THEN ExplicitAggregateSteps
          ELSE ExplicitCollectSteps)
    ELSE (IF op = "aggregate" THEN ExponentialAggregateSteps
          ELSE ExponentialCollectSteps)

Threads == 1..NumThreads

ThreadIdle == [op |-> "", pc |-> 0, accessing |-> ""]

\* the step thread t is at, "" when it is in no call
StepOf(t) ==
    IF threads[t].op = "" THEN ""
    ELSE Steps(lockedKind, threads[t].op)[threads[t].pc]

\* thread t after the step it is at
Advance(t) ==
    IF threads[t].pc = Len(Steps(lockedKind, threads[t].op))
    THEN ThreadIdle
    ELSE [threads[t] EXCEPT !.pc = threads[t].pc + 1, !.accessing = ""]

LockInit ==
    /\ lockedKind \in AggregatorKinds
    /\ lock = 0
    /\ threads = [t \in Threads |-> ThreadIdle]

\* the threads before any call, for the specifications of the other components
LockParked ==
    /\ lockedKind = "sum"
    /\ lock = 0
    /\ threads = [t \in Threads |-> ThreadIdle]

\* thread t calls aggregate or collect
ThreadCall(t) ==
    /\ threads[t].op = ""
    /\ \E op \in {"aggregate", "collect"} :
          threads' = [threads EXCEPT ![t] = [op |-> op, pc |-> 1,
                                             accessing |-> ""]]
    /\ UNCHANGED <<lockedKind, lock>>
    /\ UNCHANGED notLockVars

\* with self._lock: entered once the lock is free
ThreadAcquire(t) ==
    /\ StepOf(t) = "acquire"
    /\ lock = 0
    /\ lock' = t
    /\ threads' = [threads EXCEPT ![t] = Advance(t)]
    /\ UNCHANGED lockedKind
    /\ UNCHANGED notLockVars

\* the with block is left
ThreadRelease(t) ==
    /\ StepOf(t) = "release"
    /\ lock' = 0
    /\ threads' = [threads EXCEPT ![t] = Advance(t)]
    /\ UNCHANGED lockedKind
    /\ UNCHANGED notLockVars

\* thread t starts to read or write the attribute it is at
ThreadAccessBegin(t) ==
    /\ StepOf(t) \notin {"", "acquire", "release"}
    /\ threads[t].accessing = ""
    /\ threads' = [threads EXCEPT ![t].accessing = StepOf(t)]
    /\ UNCHANGED <<lockedKind, lock>>
    /\ UNCHANGED notLockVars

\* thread t is through with the attribute
ThreadAccessEnd(t) ==
    /\ threads[t].accessing # ""
    /\ threads' = [threads EXCEPT ![t] = Advance(t)]
    /\ UNCHANGED <<lockedKind, lock>>
    /\ UNCHANGED notLockVars

LockNext ==
    \E t \in Threads :
        \/ ThreadCall(t)
        \/ ThreadAcquire(t)
        \/ ThreadRelease(t)
        \/ ThreadAccessBegin(t)
        \/ ThreadAccessEnd(t)

(***************************************************************************)
(* _ExplicitBucketHistogramAggregation                                     *)
(***************************************************************************)
\* math.inf and -math.inf, beyond every measurement of the model
Inf == 1000
NegInf == -1000

\* measurements: below, at, between and above the boundaries
HistValues == 0..3

\* ascending boundary lists, the empty one included
HistBoundaryLists == {<<>>, <<1>>, <<0, 2>>, <<1, 2, 3>>}

Min(a, b) == IF a <= b THEN a ELSE b
Max(a, b) == IF a >= b THEN a ELSE b

\* positions lo and hi are the 0-based ones of bisect
RECURSIVE BisectLoop(_, _, _, _, _)
BisectLoop(a, x, lo, hi, right) ==
    IF lo < hi
    THEN LET mid == (lo + hi) \div 2
         IN  IF (IF right THEN a[mid + 1] <= x ELSE a[mid + 1] < x)
             THEN BisectLoop(a, x, mid + 1, hi, right)
             ELSE BisectLoop(a, x, lo, mid, right)
    ELSE lo

\* bisect.bisect_right: what aggregate does not call
BisectRight(a, x) == BisectLoop(a, x, 0, Len(a), TRUE)

\* bisect.bisect_left
BisectLeft(a, x) == BisectLoop(a, x, 0, Len(a), FALSE)

HistogramDataPoint(start, time, sum_, bucket_counts, min_, max_) ==
    [start_time_unix_nano |-> start,
     time_unix_nano       |-> time,
     count                |-> SeqSum(bucket_counts),
     sum                  |-> sum_,
     bucket_counts        |-> bucket_counts,
     min                  |-> min_,
     max                  |-> max_]

\* _get_empty_bucket_counts
EmptyBucketCounts(boundaries) == [i \in 1..(Len(boundaries) + 1) |-> 0]

\* __init__
ExplicitNew(boundaries, record_min_max, start_time_unix_nano) ==
    [boundaries           |-> boundaries,
     bucket_counts        |-> EmptyBucketCounts(boundaries),
     min                  |-> Inf,
     max                  |-> NegInf,
     sum                  |-> 0,
     record_min_max       |-> record_min_max,
     start_time_unix_nano |-> start_time_unix_nano,
     previous_point       |-> None]

\* aggregate
ExplicitAggregateValue(self, value) ==
    [self EXCEPT
        !.min = IF self.record_min_max THEN Min(@, value) ELSE @,
        !.max = IF self.record_min_max THEN Max(@, value) ELSE @,
        !.sum = @ + value,
        !.bucket_counts[BisectLeft(self.boundaries, value) + 1] = @ + 1]

\* collect, the with block and the point built from what it read
ExplicitReadAndReset(self, collection_start_nano) ==
    IF \A i \in DOMAIN self.bucket_counts : self.bucket_counts[i] = 0
    THEN [read |-> None, self |-> self]
    ELSE [read |-> Some(HistogramDataPoint(self.start_time_unix_nano,
                                           collection_start_nano,
                                           self.sum, self.bucket_counts,
                                           self.min, self.max)),
          self |-> [self EXCEPT
                      !.bucket_counts = EmptyBucketCounts(self.boundaries),
                      !.start_time_unix_nano = collection_start_nano,
                      !.sum = 0,
                      !.min = Inf,
                      !.max = NegInf]]

\* a conversion that forgets the point emitted before
ExplicitConvertDropsPrevious(self, current_point, aggregation_temporality) ==
    [result |-> Some(current_point),
     self   |-> [self EXCEPT !.previous_point = Some(current_point)]]

\* collect, after the with block; the instrument temporality is DELTA
ExplicitConvert(self, current_point, aggregation_temporality) ==
    IF IsNone(self.previous_point) \/ aggregation_temporality = DELTA
    THEN [result |-> Some(current_point),
          self   |-> [self EXCEPT !.previous_point = Some(current_point)]]
    ELSE LET previous == Get(self.previous_point)
             converted ==
                 IF aggregation_temporality = CUMULATIVE
                 THEN HistogramDataPoint(
                          previous.start_time_unix_nano,
                          current_point.time_unix_nano,
                          current_point.sum + previous.sum,
                          [i \in DOMAIN current_point.bucket_counts |->
                              current_point.bucket_counts[i]
                                  + previous.bucket_counts[i]],
                          Min(current_point.min, previous.min),
                          Max(current_point.max, previous.max))
                 ELSE HistogramDataPoint(
                          previous.time_unix_nano,
                          current_point.time_unix_nano,
                          current_point.sum - previous.sum,
                          [i \in DOMAIN current_point.bucket_counts |->
                              current_point.bucket_counts[i]
                                  - previous.bucket_counts[i]],
                          current_point.min,
                          current_point.max)
         IN  [result |-> Some(converted),
              self   |-> [self EXCEPT !.previous_point = Some(converted)]]

ExplicitCollectResult(self, aggregation_temporality, collection_start_nano) ==
    LET r == ExplicitReadAndReset(self, collection_start_nano)
    IN  IF IsNone(r.read)
        THEN [result |-> None, self |-> r.self]
        ELSE ExplicitConvert(r.self, Get(r.read), aggregation_temporality)

NoCall == [op |-> "", value |-> 0, before |-> <<>>, result |-> None]

NothingEver(boundaries) ==
    [bucket_counts |-> EmptyBucketCounts(boundaries), sum |-> 0,
     min |-> Inf, max |-> NegInf, aggregates |-> 0, collects |-> 0,
     emitted |-> 0]

HistInit ==
    /\ \E boundaries \in HistBoundaryLists, record_min_max \in BOOLEAN :
          /\ hist = ExplicitNew(boundaries, record_min_max, 0)
          /\ histEver = NothingEver(boundaries)
    /\ hist_temporality \in {DELTA, CUMULATIVE}
    /\ histLast = NoCall

\* the histogram before any call, for the specifications of the other
\* components
HistParked ==
    /\ hist = ExplicitNew(<<>>, TRUE, 0)
    /\ histEver = NothingEver(<<>>)
    /\ hist_temporality = DELTA
    /\ histLast = NoCall

ExplicitAggregate ==
    /\ histEver.aggregates < MaxHistAggregates
    /\ \E value \in HistValues :
          /\ hist' = ExplicitAggregateValue(hist, value)
          /\ histLast' = [op |-> "aggregate", value |-> value,
                          before |-> hist.bucket_counts, result |-> None]
          /\ histEver' =
                [histEver EXCEPT
                    !.bucket_counts =
                        [i \in DOMAIN @ |->
                            @[i] + IF hist'.bucket_counts[i]
                                          # hist.bucket_counts[i]
                                   THEN 1 ELSE 0],
                    !.sum = @ + value,
                    !.min = Min(@, value),
                    !.max = Max(@, value),
                    !.aggregates = @ + 1]
    /\ UNCHANGED hist_temporality
    /\ UNCHANGED notHistVars

ExplicitCollect ==
    /\ histEver.collects < MaxHistCollects
    /\ LET r == ExplicitCollectResult(hist, hist_temporality,
                                      histEver.aggregates + histEver.collects
                                          + 1)
       IN  /\ hist' = r.self
           /\ histLast' = [op |-> "collect", value |-> 0,
                           before |-> hist.bucket_counts,
                           result |-> r.result]
           /\ histEver' = [histEver EXCEPT
                              !.collects = @ + 1,
                              !.emitted = @ + IF IsNone(r.result)
                                              THEN 0 ELSE 1]
    /\ UNCHANGED hist_temporality
    /\ UNCHANGED notHistVars

HistNext == ExplicitAggregate \/ ExplicitCollect

(***************************************************************************)
(* exponential_histogram/buckets.py: VariableWidthBacking and Buckets.     *)
(* A Buckets object is a record: backing is _backing._counts, counts is    *)
(* the attribute _counts that collect sets on the Buckets object itself,   *)
(* index_base, index_start and index_end are the three indexes.            *)
(***************************************************************************)
\* x >> by and 1 << by on Python integers
ShiftRight(x, by) == x \div (2 ^ by)
ShiftLeftOne(by) == 2 ^ by

\* the methods a VariableWidthBacking has
BackingMethods ==
    {"size", "grow", "reverse", "empty_bucket", "increment", "count_at",
     "reset"}

\* Buckets.__init__
BucketsNew ==
    [backing     |-> <<0>>,
     counts      |-> None,
     index_base  |-> 0,
     index_start |-> 0,
     index_end   |-> 0]

\* VariableWidthBacking.size
BackingSize(buckets) == Len(buckets.backing)

\* VariableWidthBacking.grow; positions are the 0-based ones of the list
BackingGrow(backing, new_size, old_positive_limit, new_positive_limit) ==
    [i \in 1..new_size |->
        IF i - 1 < old_positive_limit
        THEN backing[i]
        ELSE IF i - 1 >= new_positive_limit
        THEN backing[old_positive_limit + (i - 1 - new_positive_limit) + 1]
        ELSE 0]

\* a reverse that leaves the array as it is
BackingReverseNothing(backing, start, end) == backing

\* VariableWidthBacking.reverse: the items at positions [start, end)
BackingReverse(backing, start, end) ==
    [i \in 1..Len(backing) |->
        IF start <= i - 1 /\ i - 1 < end
        THEN backing[start + end - (i - 1)]
        ELSE backing[i]]

\* Buckets.at
BucketsAt(buckets, position) ==
    LET bias == buckets.index_base - buckets.index_start
        wrapped == IF position < bias
                   THEN position + BackingSize(buckets)
                   ELSE position
    IN  buckets.backing[wrapped - bias + 1]

\* Buckets.len
BucketsLen(buckets) ==
    IF BackingSize(buckets) = 0
    THEN 0
    ELSE IF buckets.index_end = buckets.index_start
            /\ BucketsAt(buckets, 0) = 0
    THEN 0
    ELSE buckets.index_end - buckets.index_start + 1

\* Buckets.increment_bucket
BucketsIncrement(buckets, bucket_index, incr) ==
    [buckets EXCEPT !.backing[bucket_index + 1] = @ + incr]

\* Buckets.downscale, the inner while: fold position inpos into outpos
RECURSIVE FoldInner(_, _, _, _, _, _, _)
FoldInner(backing, index, inpos, pos, outpos, each, size) ==
    IF index < each /\ inpos < size
    THEN FoldInner(
             IF outpos # inpos
             THEN [backing EXCEPT ![inpos + 1] = 0,
                                  ![outpos + 1] = @ + backing[inpos + 1]]
             ELSE backing,
             index + 1, inpos + 1, pos + 1, outpos, each, size)
    ELSE [backing |-> backing, inpos |-> inpos, pos |-> pos]

\* Buckets.downscale, the outer while
RECURSIVE FoldOuter(_, _, _, _, _, _, _)
FoldOuter(backing, pos, inpos, outpos, each, size, index_end) ==
    IF pos <= index_end
    THEN LET r == FoldInner(backing, pos % each, inpos, pos, outpos, each,
                            size)
         IN  FoldOuter(r.backing, r.pos, r.inpos, outpos + 1, each, size,
                       index_end)
    ELSE backing

\* a downscale that leaves index_end at the old scale
BucketsDownscaleKeepsEnd(buckets, by) ==
    [buckets EXCEPT !.index_start = ShiftRight(@, by),
                    !.index_base = ShiftRight(buckets.index_start, by)]

\* Buckets.downscale
BucketsDownscale(buckets, by) ==
    LET bias == buckets.index_base - buckets.index_start
        size == BackingSize(buckets)
        rotated ==
            IF bias # 0
            THEN BackingReverse(
                     BackingReverse(BackingReverse(buckets.backing, 0, size),
                                    0, bias),
                     bias, size)
            ELSE buckets.backing
        folded == FoldOuter(rotated, buckets.index_start, 0, 0,
                            ShiftLeftOne(by),
                            1 + buckets.index_end - buckets.index_start,
                            buckets.index_end)
    IN  [buckets EXCEPT !.backing = folded,
                        !.index_start = ShiftRight(@, by),
                        !.index_end = ShiftRight(@, by),
                        !.index_base = ShiftRight(buckets.index_start, by)]

(***************************************************************************)
(* ExponentMapping and LogarithmMapping.  Measurements are 0 and plus or   *)
(* minus a power of two, whose logarithm is exact.                         *)
(***************************************************************************)
\* LogarithmMapping._max_scale
MaxScale == 20

RECURSIVE Log2(_)
Log2(value) == IF value <= 1 THEN 0 ELSE 1 + Log2(value \div 2)

\* ExponentMapping(scale) for scale <= 0, LogarithmMapping(scale) above
MappingNew(scale) ==
    [kind |-> IF scale <= 0 THEN "exponent" ELSE "logarithm", scale |-> scale]

\* map_to_index: floor(log2(value) * 2 ^ scale)
MapToIndex(mapping, value) ==
    IF mapping.kind = "logarithm"
    THEN Log2(value) * (2 ^ mapping.scale)
    ELSE ShiftRight(Log2(value), 0 - mapping.scale)

(***************************************************************************)
(* _ExponentialBucketHistogramAggregation.  A call that raises leaves the  *)
(* object as it was when the exception left it; raised names the           *)
(* exception, "" when the call returned.                                   *)
(***************************************************************************)
\* _min_max_size and _max_max_size
MinMaxSize == 2
MaxMaxSize == 16384

\* max_size arguments of the model
ExpoMaxSizes == {2, 4}

\* measurements: zero, and plus or minus a power of two
ExpoValues == {0, 2, 4, -2}

Abs(number) == IF number < 0 THEN 0 - number ELSE number

\* __init__
ExpoNew(max_size, start_time_unix_nano) ==
    [max_size             |-> max_size,
     sum                  |-> 0,
     count                |-> 0,
     zero_count           |-> 0,
     min                  |-> 0,
     max                  |-> 0,
     positive             |-> BucketsNew,
     negative             |-> BucketsNew,
     mapping              |-> MappingNew(MaxScale),
     start_time_unix_nano |-> start_time_unix_nano,
     previous_point       |-> None]

\* the _scale property
Scale(self) ==
    IF self.count = self.zero_count THEN 0 ELSE self.mapping.scale

\* _power_of_two_rounded_up: the least power of two >= number
RECURSIVE LeastPowerOfTwo(_, _)
LeastPowerOfTwo(number, power) ==
    IF power >= number THEN power ELSE LeastPowerOfTwo(number, 2 * power)

PowerOfTwoRoundedUp(number) == LeastPowerOfTwo(number, 1)

\* _grow: the method it calls on the backing is grow_to
Grow(self, buckets, needed) ==
    LET size == BackingSize(buckets)
        bias == buckets.index_base - buckets.index_start
        old_positive_limit == size - bias
        rounded == PowerOfTwoRoundedUp(needed)
        new_size == IF rounded > self.max_size THEN self.max_size
                    ELSE rounded
        new_positive_limit == new_size - bias
    IN  IF "grow_to" \in BackingMethods
        THEN [buckets |-> [buckets EXCEPT
                              !.backing = BackingGrow(@, new_size,
                                                      old_positive_limit,
                                                      new_positive_limit)],
              raised  |-> ""]
        ELSE [buckets |-> buckets, raised |-> "AttributeError"]

\* _increment_index_by, from the bucket index on
IncrementAt(buckets, index, incr) ==
    LET bucket_index == index - buckets.index_base
    IN  BucketsIncrement(buckets,
                         IF bucket_index < 0
                         THEN bucket_index + BackingSize(buckets)
                         ELSE bucket_index,
                         incr)

Succeeded(buckets) ==
    [buckets |-> buckets, low |-> 0, high |-> 0, success |-> TRUE,
     raised |-> ""]

\* _increment_index_by on one bucket set
IncrementIndexBy(self, buckets, index, incr) ==
    IF incr = 0
    THEN Succeeded(buckets)
    ELSE IF BucketsLen(buckets) = 0
    THEN Succeeded(IncrementAt([buckets EXCEPT !.index_start = index,
                                               !.index_end = index,
                                               !.index_base = index],
                               index, incr))
    ELSE IF index < buckets.index_start
    THEN LET span == buckets.index_end - index
             g == IF span >= BackingSize(buckets)
                  THEN Grow(self, buckets, span + 1)
                  ELSE [buckets |-> buckets, raised |-> ""]
         IN  IF span >= self.max_size
             THEN [buckets |-> buckets, low |-> index,
                   high |-> buckets.index_end, success |-> FALSE,
                   raised |-> ""]
             ELSE IF g.raised # ""
             THEN [buckets |-> g.buckets, low |-> 0, high |-> 0,
                   success |-> FALSE, raised |-> g.raised]
             ELSE Succeeded(IncrementAt(
                      [g.buckets EXCEPT !.index_start = index], index, incr))
    ELSE IF index > buckets.index_end
    THEN LET span == index - buckets.index_start
             g == IF span >= BackingSize(buckets)
                  THEN Grow(self, buckets, span + 1)
                  ELSE [buckets |-> buckets, raised |-> ""]
         IN  IF span >= self.max_size
             THEN [buckets |-> buckets, low |-> buckets.index_start,
                   high |-> index, success |-> FALSE, raised |-> ""]
             ELSE IF g.raised # ""
             THEN [buckets |-> g.buckets, low |-> 0, high |-> 0,
                   success |-> FALSE, raised |-> g.raised]
             ELSE Succeeded(IncrementAt(
                      [g.buckets EXCEPT !.index_end = index], index, incr))
    ELSE Succeeded(IncrementAt(buckets, index, incr))

\* _change_scale
RECURSIVE ChangeScale(_, _, _)
ChangeScale(high, low, size) ==
    IF high - low >= size
    THEN 1 + ChangeScale(ShiftRight(high, 1), ShiftRight(low, 1), size)
    ELSE 0

\* _downscale without the check of the sign of change
DownscaleReturnsOnNegative(self, change) ==
    IF change <= 0
    THEN [self |-> self, raised |-> ""]
    ELSE [self   |-> [self EXCEPT
                         !.positive = BucketsDownscale(@, change),
                         !.negative = BucketsDownscale(@, change),
                         !.mapping = MappingNew(self.mapping.scale - change)],
          raised |-> ""]

\* _downscale
Downscale(self, change) ==
    IF change = 0
    THEN [self |-> self, raised |-> ""]
    ELSE IF change < 0
    THEN [self |-> self, raised |-> "Exception"]
    ELSE [self   |-> [self EXCEPT
                         !.positive = BucketsDownscale(@, change),
                         !.negative = BucketsDownscale(@, change),
                         !.mapping = MappingNew(self.mapping.scale - change)],
          raised |-> ""]

\* self with the bucket set named which replaced
WithBuckets(self, which, buckets) ==
    IF which = "positive"
    THEN [self EXCEPT !.positive = buckets]
    ELSE [self EXCEPT !.negative = buckets]

BucketsOf(self, which) ==
    IF which = "positive" THEN self.positive ELSE self.negative

\* _update
Update(self, which, value, incr) ==
    LET first == IncrementIndexBy(self, BucketsOf(self, which),
                                  MapToIndex(self.mapping, value), incr)
        scaled == Downscale(self, ChangeScale(first.high, first.low,
                                              self.max_size))
        second == IncrementIndexBy(scaled.self, BucketsOf(scaled.self, which),
                                   MapToIndex(scaled.self.mapping, value),
                                   incr)
    IN  IF first.raised # "" \/ first.success
        THEN [self   |-> WithBuckets(self, which, first.buckets),
              raised |-> first.raised]
        ELSE IF scaled.raised # ""
        THEN scaled
        ELSE [self   |-> WithBuckets(scaled.self, which, second.buckets),
              raised |-> IF second.raised # "" THEN second.raised
                         ELSE IF second.success THEN "" ELSE "Exception"]

\* _update_by_incr
UpdateByIncr(self, number, incr) ==
    LET bounded ==
            IF self.count = 0
            THEN [self EXCEPT !.min = number, !.max = number]
            ELSE [self EXCEPT
                     !.min = IF number < @ THEN number ELSE @,
                     !.max = IF number > @ THEN number ELSE @]
        counted == [bounded EXCEPT !.count = @ + incr]
    IN  IF number = 0
        THEN [self   |-> [counted EXCEPT !.zero_count = @ + incr],
              raised |-> ""]
        ELSE Update([counted EXCEPT !.sum = @ + number * incr],
                    IF number > 0 THEN "positive" ELSE "negative",
                    Abs(number), incr)

\* _low_high_at_scale
LowHighAtScale(self, buckets, scale) ==
    IF BucketsLen(buckets) = 0
    THEN [low |-> 0, high |-> -1]
    ELSE [low  |-> ShiftRight(buckets.index_start, Scale(self) - scale),
          high |-> ShiftRight(buckets.index_end, Scale(self) - scale)]

\* _combine_low_high
CombineLowHigh(a, b) ==
    IF b.low > b.high THEN a
    ELSE IF a.low > a.high THEN b
    ELSE [low |-> Min(a.low, b.low), high |-> Max(a.high, b.high)]

\* _merge_buckets, from position index of theirs on
RECURSIVE MergeBuckets(_, _, _, _, _, _)
MergeBuckets(self, which, other, theirs, scale, index) ==
    IF index >= BucketsLen(theirs)
    THEN [self |-> self, raised |-> ""]
    ELSE LET r == IncrementIndexBy(
                      self, BucketsOf(self, which),
                      ShiftRight(theirs.index_start + index,
                                 Scale(other) - scale),
                      BucketsAt(theirs, index))
         IN  IF r.raised # ""
             THEN [self |-> self, raised |-> r.raised]
             ELSE IF ~r.success
             THEN [self |-> self, raised |-> "Exception"]
             ELSE MergeBuckets(WithBuckets(self, which, r.buckets), which,
                               other, theirs, scale, index + 1)

\* _merge_from
MergeFrom(self, other) ==
    LET bounded ==
            IF self.count = 0
            THEN [self EXCEPT !.min = other.min, !.max = other.max]
            ELSE IF other.count # 0
            THEN [self EXCEPT !.min = Min(@, other.min),
                              !.max = Max(@, other.max)]
            ELSE self
        added == [bounded EXCEPT !.sum = @ + other.sum,
                                 !.count = @ + other.count,
                                 !.zero_count = @ + other.zero_count]
        common == Min(Scale(added), Scale(other))
        positive == CombineLowHigh(
                        LowHighAtScale(added, added.positive, common),
                        LowHighAtScale(other, other.positive, common))
        negative == CombineLowHigh(
                        LowHighAtScale(added, added.negative, common),
                        LowHighAtScale(other, other.negative, common))
        min_scale ==
            Min(common - ChangeScale(positive.high, positive.low,
                                     added.max_size),
                common - ChangeScale(negative.high, negative.low,
                                     added.max_size))
        scaled == Downscale(added, Scale(added) - min_scale)
        merged == MergeBuckets(scaled.self, "positive", other,
                               other.positive, min_scale, 0)
    IN  IF scaled.raised # "" THEN scaled
        ELSE IF merged.raised # "" THEN merged
        ELSE MergeBuckets(merged.self, "negative", other, other.negative,
                          min_scale, 0)

\* Buckets.offset as collect passes it: the method, not what it returns
OffsetMethod == "Buckets.offset"

BucketsPoint(offset, bucket_counts) ==
    [offset |-> offset, bucket_counts |-> bucket_counts]

ExponentialHistogramDataPoint(start, time, count, sum_, scale, zero_count, positive, negative, min_, max_) ==
    [start_time_unix_nano |-> start,
     time_unix_nano       |-> time,
     count                |-> count,
     sum                  |-> sum_,
     scale                |-> scale,
     zero_count           |-> zero_count,
     positive             |-> positive,
     negative             |-> negative,
     min                  |-> min_,
     max                  |-> max_]

AnyCount(counts) == \E i \in DOMAIN counts : counts[i] # 0

\* zip of two count lists, added pairwise
ZipAdd(current, previous) ==
    [i \in 1..Min(Len(current), Len(previous)) |-> current[i] + previous[i]]

\* collect, the with block and the point built after it
ExpoReadAndReset(self, collection_start_nano) ==
    IF ~AnyCount(self.negative.backing) /\ ~AnyCount(self.positive.backing)
    THEN [read |-> None, self |-> self]
    ELSE LET reset ==
                 [self EXCEPT !.negative.counts = Some(<<0>>),
                              !.positive.counts = Some(<<0>>),
                              !.start_time_unix_nano = collection_start_nano,
                              !.sum = 0,
                              !.min = Inf,
                              !.max = NegInf]
         IN  [read |-> Some(ExponentialHistogramDataPoint(
                                self.start_time_unix_nano,
                                collection_start_nano,
                                SeqSum(reset.negative.backing)
                                    + SeqSum(reset.positive.backing)
                                    + reset.zero_count,
                                self.sum,
                                Scale(reset),
                                reset.zero_count,
                                BucketsPoint(OffsetMethod,
                                             reset.positive.backing),
                                BucketsPoint(OffsetMethod,
                                             Get(reset.negative.counts)),
                                self.min,
                                self.max)),
              self |-> reset]

\* collect, after the point is built; the instrument temporality is DELTA
ExpoConvert(self, current_point, aggregation_temporality) ==
    IF IsNone(self.previous_point) \/ aggregation_temporality = DELTA
    THEN [result |-> Some(current_point),
          self   |-> [self EXCEPT !.previous_point = Some(current_point)]]
    ELSE LET previous == Get(self.previous_point)
             cumulative == aggregation_temporality = CUMULATIVE
             negative_counts == ZipAdd(current_point.negative.bucket_counts,
                                       previous.negative.bucket_counts)
             positive_counts == ZipAdd(current_point.positive.bucket_counts,
                                       previous.positive.bucket_counts)
             converted ==
                 ExponentialHistogramDataPoint(
                     IF cumulative THEN previous.start_time_unix_nano
                     ELSE previous.time_unix_nano,
                     current_point.time_unix_nano,
                     SeqSum(negative_counts) + SeqSum(positive_counts)
                         + self.zero_count,
                     IF cumulative THEN current_point.sum + previous.sum
                     ELSE current_point.sum - previous.sum,
                     Scale(self),
                     self.zero_count,
                     BucketsPoint(OffsetMethod, positive_counts),
                     BucketsPoint(OffsetMethod, negative_counts),
                     IF cumulative THEN Min(current_point.min, previous.min)
                     ELSE current_point.min,
                     IF cumulative THEN Max(current_point.max, previous.max)
                     ELSE current_point.max)
         IN  [result |-> Some(converted),
              self   |-> [self EXCEPT !.previous_point = Some(converted)]]

ExpoCollectResult(self, aggregation_temporality, collection_start_nano) ==
    LET r == ExpoReadAndReset(self, collection_start_nano)
    IN  IF IsNone(r.read)
        THEN [result |-> None, self |-> r.self]
        ELSE ExpoConvert(r.self, Get(r.read), aggregation_temporality)

\* the aggregator that aggregate calls with these values leave behind
RECURSIVE Aggregated(_, _)
Aggregated(self, values) ==
    IF values = <<>> THEN self
    ELSE Aggregated(UpdateByIncr(self, Head(values), 1).self, Tail(values))

\* the measurements of the aggregators merged into the histogram
OtherValues == {<<>>, <<0>>, <<2>>, <<4>>, <<2, -2>>}

NothingSeen ==
    [count |-> 0, zero_count |-> 0, sum |-> 0, ever_count |-> 0,
     ever_sum |-> 0, aggregates |-> 0, collects |-> 0, merges |-> 0]

NoExpoCall ==
    [op |-> "", value |-> 0, merged |-> <<>>, result |-> None, raised |-> ""]

\* collection_start_nano of the next collect
ExpoClock == expoInterval.collects + 1

ExpoInit ==
    /\ \E max_size \in ExpoMaxSizes :
          /\ MinMaxSize <= max_size
          /\ max_size <= MaxMaxSize
          /\ expo = ExpoNew(max_size, 0)
          /\ expoLast = NoExpoCall
    /\ expo_temporality \in {UNSPECIFIED, DELTA, CUMULATIVE}
    /\ expoInterval = NothingSeen

\* the histogram before any call, for the specifications of the other
\* components
ExpoParked ==
    /\ expo = ExpoNew(MinMaxSize, 0)
    /\ expoLast = NoExpoCall
    /\ expo_temporality = DELTA
    /\ expoInterval = NothingSeen

ExpoAggregate ==
    /\ expoInterval.aggregates < MaxExpoAggregates
    /\ \E value \in ExpoValues :
          LET r == UpdateByIncr(expo, value, 1)
          IN  /\ expo' = r.self
              /\ expoLast' = [op |-> "aggregate", value |-> value,
                              merged |-> <<>>, result |-> None,
                              raised |-> r.raised]
              /\ expoInterval' =
                    [expoInterval EXCEPT
                        !.count = @ + 1,
                        !.zero_count = @ + IF value = 0 THEN 1 ELSE 0,
                        !.sum = @ + value,
                        !.ever_count = @ + 1,
                        !.ever_sum = @ + value,
                        !.aggregates = @ + 1]
    /\ UNCHANGED expo_temporality
    /\ UNCHANGED notExpoVars

ExpoMerge ==
    /\ expoInterval.collects + expoInterval.merges < MaxExpoCollectsAndMerges
    /\ \E values \in OtherValues :
          LET other == Aggregated(ExpoNew(expo.max_size, 0), values)
              r == MergeFrom(expo, other)
          IN  /\ expo' = r.self
              /\ expoLast' = [op |-> "merge", value |-> 0,
                              merged |-> values, result |-> None,
                              raised |-> r.raised]
              /\ expoInterval' =
                    [expoInterval EXCEPT
                        !.count = @ + other.count,
                        !.zero_count = @ + other.zero_count,
                        !.sum = @ + other.sum,
                        !.ever_count = @ + other.count,
                        !.ever_sum = @ + other.sum,
                        !.merges = @ + 1]
    /\ UNCHANGED expo_temporality
    /\ UNCHANGED notExpoVars

ExpoCollect ==
    /\ expoInterval.collects + expoInterval.merges < MaxExpoCollectsAndMerges
    /\ LET r == ExpoCollectResult(expo, expo_temporality, ExpoClock)
       IN  /\ expo' = r.self
           /\ expoLast' = [op |-> "collect", value |-> 0, merged |-> <<>>,
                           result |-> r.result, raised |-> ""]
           /\ expoInterval' = [expoInterval EXCEPT
                                  !.count = 0, !.zero_count = 0, !.sum = 0,
                                  !.collects = @ + 1]
    /\ UNCHANGED expo_temporality
    /\ UNCHANGED notExpoVars

ExpoNext == ExpoAggregate \/ ExpoMerge \/ ExpoCollect

(***************************************************************************)
(* DefaultAggregation._create_aggregation and direct calls of _downscale   *)
(***************************************************************************)

\* the instrument classes of opentelemetry.metrics and one instrument that
\* is an instance of none of them
SupportedInstruments ==
    {"Counter", "UpDownCounter", "ObservableCounter",
     "ObservableUpDownCounter", "Histogram", "ObservableGauge"}

Instruments == SupportedInstruments \cup {"Instrument"}

StartTimes == 0..MaxStartTime

\* the constructor call _create_aggregation returns the result of
Constructed(class, is_monotonic, temporality, start_time_unix_nano) ==
    [class                   |-> class,
     instrument_is_monotonic |-> is_monotonic,
     instrument_temporality  |-> temporality,
     start_time_unix_nano    |-> start_time_unix_nano]

\* DefaultAggregation._create_aggregation
CreateAggregation(instrument, start_time_unix_nano) ==
    IF instrument = "Counter"
    THEN [result |-> Some(Constructed("_SumAggregation", Some(TRUE),
                              Some(DELTA), Some(start_time_unix_nano))),
          raised |-> ""]
    ELSE IF instrument = "UpDownCounter"
    THEN [result |-> Some(Constructed("_SumAggregation", Some(FALSE),
                              Some(DELTA), Some(start_time_unix_nano))),
          raised |-> ""]
    ELSE IF instrument = "ObservableCounter"
    THEN [result |-> Some(Constructed("_SumAggregation", Some(TRUE),
                              Some(CUMULATIVE), Some(start_time_unix_nano))),
          raised |-> ""]
    ELSE IF instrument = "ObservableUpDownCounter"
    THEN [result |-> Some(Constructed("_SumAggregation", Some(FALSE),
                              Some(CUMULATIVE), Some(start_time_unix_nano))),
          raised |-> ""]
    ELSE IF instrument = "Histogram"
    THEN [result |-> Some(Constructed(
                              "_ExponentialBucketHistogramAggregation", None,
                              None, Some(start_time_unix_nano))),
          raised |-> ""]
    ELSE IF instrument = "ObservableGauge"
    THEN [result |-> Some(Constructed("_LastValueAggregation", None, None,
                              None)),
          raised |-> ""]
    ELSE [result |-> None, raised |-> "Exception"]

NoCreate ==
    [instrument |-> "", start_time_unix_nano |-> 0, result |-> None,
     raised |-> ""]

\* the changes _downscale is called with
Changes == {-2, -1, 0, 1, 2}

NoDownscale(self) == [self |-> self, change |-> 0, raised |-> "", calls |-> 0]

DefaultInit ==
    /\ created = NoCreate
    /\ \E max_size \in ExpoMaxSizes, values \in OtherValues :
          rescaled = NoDownscale(Aggregated(ExpoNew(max_size, 0), values))

DefaultParked ==
    /\ created = NoCreate
    /\ rescaled = NoDownscale(ExpoNew(MinMaxSize, 0))

CreateAggregationCall ==
    /\ \E instrument \in Instruments, start_time_unix_nano \in StartTimes :
          LET call == CreateAggregation(instrument, start_time_unix_nano)
          IN  created' = [instrument           |-> instrument,
                          start_time_unix_nano |-> start_time_unix_nano,
                          result               |-> call.result,
                          raised               |-> call.raised]
    /\ UNCHANGED <<rescaled, notDefaultVars>>

DownscaleCall ==
    /\ rescaled.calls < MaxDownscales
    /\ \E change \in Changes :
          LET call == Downscale(rescaled.self, change)
          IN  rescaled' = [self   |-> call.self,
                         change |-> change,
                         raised |-> call.raised,
                         calls  |-> rescaled.calls + 1]
    /\ UNCHANGED <<created, notDefaultVars>>

DefaultNext == CreateAggregationCall \/ DownscaleCall

(***************************************************************************)
(* BasePatcher of patcher/__init__.py and BasePatcher.protect of            *)
(* patcher/base_patcher.py                                                 *)
(***************************************************************************)

\* the patcher objects: instances of one subclass of each BasePatcher
Patchers == 1..NumPatchers

\* "attribute": patcher/__init__.py; "decorator": base_patcher.py
PatcherClasses == {"attribute", "decorator"}

\* what the underlying methods return (TestPatcher of the test)
UnderlyingResult(method) == IF method = "patch" THEN "patched" ELSE "unpatched"

NoPatchCall ==
    [class |-> "", patcher |-> 0, method |-> "", result |-> None,
     warned |-> FALSE, calls |-> 0]

PatchCalled(class, patcher, method, result, warned) ==
    [class |-> class, patcher |-> patcher, method |-> method,
     result |-> result, warned |-> warned, calls |-> patchLast.calls + 1]

\* the underlying method of a patcher runs
Ran(class, patcher, method) ==
    [ran EXCEPT ![class][patcher] = Append(@, method)]

\* no patcher has the attribute _is_patched yet; protect has set the function
\* attributes (lines 49 and 66)
PatchInit ==
    /\ is_patched = [patcher \in Patchers |-> None]
    /\ protected = [patch |-> FALSE, unpatch |-> TRUE]
    /\ ran = [class \in PatcherClasses |-> [patcher \in Patchers |-> <<>>]]
    /\ patchLast = NoPatchCall

PatchParked == PatchInit

\* if not hasattr(self, "_is_patched"): self._is_patched = False
IsPatched(patcher) ==
    IF IsNone(is_patched[patcher]) THEN FALSE ELSE Get(is_patched[patcher])

\* BasePatcher.patch of patcher/__init__.py
Patch(patcher) ==
    /\ patchLast.calls < MaxPatchCalls
    /\ IF ~IsPatched(patcher)
       THEN /\ ran' = Ran("attribute", patcher, "patch")
            /\ is_patched' = [is_patched EXCEPT ![patcher] = Some(TRUE)]
            /\ patchLast' = PatchCalled("attribute", patcher, "patch",
                                        Some(UnderlyingResult("patch")), FALSE)
       ELSE /\ ran' = ran
            /\ is_patched' = [is_patched EXCEPT ![patcher] = Some(TRUE)]
            /\ patchLast' = PatchCalled("attribute", patcher, "patch", None,
                                        TRUE)
    /\ UNCHANGED <<protected, notPatchVars>>

\* BasePatcher.unpatch of patcher/__init__.py
Unpatch(patcher) ==
    /\ patchLast.calls < MaxPatchCalls
    /\ IF IsPatched(patcher)
       THEN /\ ran' = Ran("attribute", patcher, "unpatch")
            /\ is_patched' = [is_patched EXCEPT ![patcher] = Some(FALSE)]
            /\ patchLast' = PatchCalled("attribute", patcher, "unpatch",
                                        Some(UnderlyingResult("unpatch")),
                                        FALSE)
       ELSE /\ ran' = ran
            /\ is_patched' = [is_patched EXCEPT ![patcher] = Some(FALSE)]
            /\ patchLast' = PatchCalled("attribute", patcher, "unpatch", None,
                                        TRUE)
    /\ UNCHANGED <<protected, notPatchVars>>

\* protected_patch of BasePatcher.protect
ProtectedPatch(patcher) ==
    /\ patchLast.calls < MaxPatchCalls
    /\ IF ~protected.patch
       THEN /\ protected' = [patch |-> TRUE, unpatch |-> FALSE]
            /\ ran' = Ran("decorator", patcher, "patch")
            /\ patchLast' = PatchCalled("decorator", patcher, "patch",
                                        Some(UnderlyingResult("patch")), FALSE)
       ELSE /\ protected' = protected
            /\ ran' = ran
            /\ patchLast' = PatchCalled("decorator", patcher, "patch", None,
                                        TRUE)
    /\ UNCHANGED <<is_patched, notPatchVars>>

\* protected_unpatch of BasePatcher.protect
ProtectedUnpatch(patcher) ==
    /\ patchLast.calls < MaxPatchCalls
    /\ IF ~protected.unpatch
       THEN /\ protected' = [patch |-> FALSE, unpatch |-> TRUE]
            /\ ran' = Ran("decorator", patcher, "unpatch")
            /\ patchLast' = PatchCalled("decorator", patcher, "unpatch",
                                        Some(UnderlyingResult("unpatch")),
                                        FALSE)
       ELSE /\ protected' = protected
            /\ ran' = ran
            /\ patchLast' = PatchCalled("decorator", patcher, "unpatch", None,
                                        TRUE)
    /\ UNCHANGED <<is_patched, notPatchVars>>

PatchNext ==
    \E patcher \in Patchers :
        \/ Patch(patcher)
        \/ Unpatch(patcher)
        \/ ProtectedPatch(patcher)
        \/ ProtectedUnpatch(patcher)

(***************************************************************************)
(* opentelemetry.metrics: the global meter provider and ProxyMeter         *)
(***************************************************************************)

\* the providers the application passes to set_meter_provider
Providers == {"p", "q"}

\* the provider _load_provider makes from the environment variable
LoadedProvider == "loaded"

ProxyMeterIds == 1..NumProxyMeters

\* the _noop_meter of a ProxyMeter
NoopMeter == [kind |-> "noop", provider |-> "", serial |-> 0]

\* the meter a call of get_meter on a provider returns: a new object per call
RealMeter(provider, serial) ==
    [kind |-> "real", provider |-> provider, serial |-> serial]

\* a ProxyMeter that was not constructed yet, and ProxyMeter.__init__
NoProxyMeter == [created |-> FALSE, real_meter |-> None, forwarded |-> <<>>]
ProxyMeterNew == [created |-> TRUE, real_meter |-> None, forwarded |-> <<>>]

NoMeterCall ==
    [op |-> "", provider |-> "", returned |-> "", warned |-> FALSE,
     calls |-> 0, serial |-> 0]

MeterCalled(op, provider, returned, warned, made) ==
    [op |-> op, provider |-> provider, returned |-> returned,
     warned |-> warned, calls |-> meterLast.calls + 1,
     serial |-> meterLast.serial + made]

\* set_meter_provider that assigns whatever the global already holds
SetProviderOverrides(current, provider) ==
    [provider |-> Some(provider), warned |-> FALSE]

\* set_meter_provider: the global it leaves and whether it warned
SetProvider(current, provider) ==
    IF ~IsNone(current)
    THEN [provider |-> current, warned |-> TRUE]
    ELSE [provider |-> Some(provider), warned |-> FALSE]

\* ProxyMeter._meter that asks the provider at every use
MeterAsksEveryTime(self, current, serial) ==
    IF ~IsNone(current)
    THEN [self  |-> [self EXCEPT
                        !.real_meter = Some(RealMeter(Get(current), serial))],
          meter |-> RealMeter(Get(current), serial),
          made  |-> 1]
    ELSE [self |-> self, meter |-> NoopMeter, made |-> 0]

\* ProxyMeter._meter: the meter it returns, the proxy it leaves and the
\* number of calls of get_meter it made on the provider
MeterOf(self, current, serial) ==
    IF ~IsNone(self.real_meter)
    THEN [self |-> self, meter |-> Get(self.real_meter), made |-> 0]
    ELSE IF ~IsNone(current)
    THEN [self  |-> [self EXCEPT
                        !.real_meter = Some(RealMeter(Get(current), serial))],
          meter |-> RealMeter(Get(current), serial),
          made  |-> 1]
    ELSE [self |-> self, meter |-> NoopMeter, made |-> 0]

MeterInit ==
    /\ meter_provider = None
    /\ proxy_meter_provider = FALSE
    /\ environ \in BOOLEAN
    /\ proxy_meters = [id \in ProxyMeterIds |-> NoProxyMeter]
    /\ meterLast = NoMeterCall

MeterParked ==
    /\ meter_provider = None
    /\ proxy_meter_provider = FALSE
    /\ environ = FALSE
    /\ proxy_meters = [id \in ProxyMeterIds |-> NoProxyMeter]
    /\ meterLast = NoMeterCall

\* set_meter_provider
SetMeterProvider(provider) ==
    /\ meterLast.calls < MaxMeterCalls
    /\ LET call == SetProvider(meter_provider, provider)
       IN  /\ meter_provider' = call.provider
           /\ meterLast' = MeterCalled("set_meter_provider", provider, "",
                                       call.warned, 0)
    /\ UNCHANGED <<proxy_meter_provider, environ, proxy_meters, notMeterVars>>

\* get_meter_provider
GetMeterProvider ==
    /\ meterLast.calls < MaxMeterCalls
    /\ IF IsNone(meter_provider)
       THEN IF ~environ
            THEN /\ proxy_meter_provider' = TRUE
                 /\ meter_provider' = meter_provider
                 /\ meterLast' = MeterCalled("get_meter_provider", "",
                                             "proxy", FALSE, 0)
            ELSE /\ meter_provider' = Some(LoadedProvider)
                 /\ proxy_meter_provider' = proxy_meter_provider
                 /\ meterLast' = MeterCalled("get_meter_provider", "",
                                             LoadedProvider, FALSE, 0)
       ELSE /\ meter_provider' = meter_provider
            /\ proxy_meter_provider' = proxy_meter_provider
            /\ meterLast' = MeterCalled("get_meter_provider", "",
                                        Get(meter_provider), FALSE, 0)
    /\ UNCHANGED <<environ, proxy_meters, notMeterVars>>

\* ProxyMeterProvider.get_meter, on the proxy provider get_meter_provider
\* has returned
ProxyGetMeter(id) ==
    /\ meterLast.calls < MaxMeterCalls
    /\ proxy_meter_provider
    /\ IF ~IsNone(meter_provider)
       THEN /\ proxy_meters' = proxy_meters
            /\ meterLast' = MeterCalled("get_meter", "", "real", FALSE, 1)
       ELSE /\ ~proxy_meters[id].created
            /\ proxy_meters' = [proxy_meters EXCEPT ![id] = ProxyMeterNew]
            /\ meterLast' = MeterCalled("get_meter", "", "proxy", FALSE, 0)
    /\ UNCHANGED <<meter_provider, proxy_meter_provider, environ, notMeterVars>>

\* ProxyMeter.create_counter and the other create_ methods
ProxyCreate(id) ==
    /\ meterLast.calls < MaxMeterCalls
    /\ proxy_meters[id].created
    /\ LET call == MeterOf(proxy_meters[id], meter_provider, meterLast.serial)
       IN  /\ proxy_meters' =
                  [proxy_meters EXCEPT ![id] =
                      [call.self EXCEPT !.forwarded = Append(@, call.meter)]]
           /\ meterLast' = MeterCalled("create", "", call.meter.kind, FALSE,
                                       call.made)
    /\ UNCHANGED <<meter_provider, proxy_meter_provider, environ, notMeterVars>>

MeterNext ==
    \/ \E provider \in Providers : SetMeterProvider(provider)
    \/ GetMeterProvider
    \/ \E id \in ProxyMeterIds : ProxyGetMeter(id)
    \/ \E id \in ProxyMeterIds : ProxyCreate(id)

(***************************************************************************)
(* _Asynchronous.observe, called for every observable instrument by the    *)
(* collection pass on the collecting thread                                *)
(***************************************************************************)

Observables == 1..NumObservables

\* a generator callback: it yields a value at every next, or it yields
\* `left` values and its following next never produces one
Generators ==
    {[kind |-> "yields", left |-> 0],
     [kind |-> "hangs", left |-> 0],
     [kind |-> "hangs", left |-> 1]}

\* next(self._callback) produces a value
Produces(callback) == callback.kind = "yields" \/ callback.left > 0

\* the generator after a next that produced a value
Advanced(callback) ==
    IF callback.kind = "yields" THEN callback
    ELSE [callback EXCEPT !.left = @ - 1]

NoPass == [pc |-> "idle", passes |-> 0, index |-> 0, observed |-> 0]

ObserveInit ==
    /\ callbacks \in [Observables -> Generators]
    /\ collection = NoPass

ObserveParked ==
    /\ callbacks = [instrument \in Observables |-> [kind |-> "yields", left |-> 0]]
    /\ collection = NoPass

\* collect_all starts on the collecting thread
PassBegin ==
    /\ collection.pc = "idle"
    /\ collection.passes < MaxPasses
    /\ collection' = [collection EXCEPT !.pc = "pass", !.index = 1]
    /\ UNCHANGED <<callbacks, notObserveVars>>

\* observe: the collecting thread enters next(self._callback)
ObserveCall ==
    /\ collection.pc = "pass"
    /\ collection.index \in Observables
    /\ collection' = [collection EXCEPT !.pc = "next"]
    /\ UNCHANGED <<callbacks, notObserveVars>>

\* observe: next returns the value the generator yields, and observe returns
\* it; there is no other way out of next (the FIXME of line 98)
ObserveReturn ==
    /\ collection.pc = "next"
    /\ Produces(callbacks[collection.index])
    /\ callbacks' = [callbacks EXCEPT ![collection.index] = Advanced(@)]
    /\ collection' = [collection EXCEPT !.pc = "pass",
                                        !.index = @ + 1,
                                        !.observed = @ + 1]
    /\ UNCHANGED notObserveVars

\* collect_all has visited every instrument
PassEnd ==
    /\ collection.pc = "pass"
    /\ collection.index \notin Observables
    /\ collection' = [collection EXCEPT !.pc = "idle",
                                        !.passes = @ + 1,
                                        !.index = 0]
    /\ UNCHANGED <<callbacks, notObserveVars>>

ObserveNext == PassBegin \/ ObserveCall \/ ObserveReturn \/ PassEnd

(***************************************************************************)
(* OTLPSpanExporter._translate_spans: the attributes of a span             *)
(***************************************************************************)

\* attribute values: their Python type and their str()
AttributeValues ==
    {[type |-> "bool", text |-> "True"],
     [type |-> "int", text |-> "1"],
     [type |-> "float", text |-> "1.5"],
     [type |-> "str", text |-> "a"],
     [type |-> "list", text |-> "[1]"],
     [type |-> "NoneType", text |-> "None"]}

\* isinstance: bool is a subclass of int
IsInstance(value, class) ==
    value.type = class \/ (class = "int" /\ value.type = "bool")

\* translate_key_values
TranslateKeyValues(key, value) ==
    IF IsInstance(value, "bool")
    THEN [key_value |-> Some([key |-> key, field |-> "bool_value",
                              value |-> value.text]), raised |-> ""]
    ELSE IF IsInstance(value, "str")
    THEN [key_value |-> Some([key |-> key, field |-> "string_value",
                              value |-> value.text]), raised |-> ""]
    ELSE IF IsInstance(value, "int")
    THEN [key_value |-> Some([key |-> key, field |-> "int_value",
                              value |-> value.text]), raised |-> ""]
    ELSE IF IsInstance(value, "float")
    THEN [key_value |-> Some([key |-> key, field |-> "double_value",
                              value |-> value.text]), raised |-> ""]
    ELSE [key_value |-> None, raised |-> "Exception"]

\* the loop over sdk_span.attributes.items(): the key of an attribute is its
\* place; an exception of translate_key_values is logged and the loop goes on
RECURSIVE TranslateAttributes(_, _, _)
TranslateAttributes(attributes, key, sofar) ==
    IF key > Len(attributes) THEN sofar
    ELSE LET call == TranslateKeyValues(key, attributes[key])
         IN  TranslateAttributes(attributes, key + 1,
                 IF call.raised = ""
                 THEN [sofar EXCEPT
                          !.attributes = Append(@, Get(call.key_value))]
                 ELSE [sofar EXCEPT !.logged = @ + 1])

NotTranslated == [attributes |-> <<>>, logged |-> 0, done |-> FALSE]

TranslateInit ==
    /\ span_attributes \in UNION {[1..n -> AttributeValues] : n \in 0..MaxAttributes}
    /\ translation = NotTranslated

TranslateParked ==
    /\ span_attributes = <<>>
    /\ translation = NotTranslated

\* _translate_spans of one span
TranslateSpans ==
    /\ ~translation.done
    /\ translation' =
           [TranslateAttributes(span_attributes, 1, NotTranslated)
               EXCEPT !.done = TRUE]
    /\ UNCHANGED <<span_attributes, notTranslateVars>>

TranslateNext == TranslateSpans

(***************************************************************************)
(* SynchronousSumAggregation of opentelemetry.sdk._metrics.aggregation     *)
(***************************************************************************)

\* Sum of sdk/_metrics/export, as _collect builds it
SumPoint(aggregation_temporality, start_time_unix_nano, time_unix_nano, value) ==
    [aggregation_temporality |-> aggregation_temporality,
     start_time_unix_nano    |-> start_time_unix_nano,
     time_unix_nano          |-> time_unix_nano,
     value                   |-> value]

\* SynchronousSumAggregation.__init__
SynchronousSumNew(now) == [value |-> 0, start_time_unix_nano |-> now]

\* SynchronousSumAggregation.aggregate
SynchronousSumAggregate(self, value) == [self EXCEPT !.value = @ + value]

\* SynchronousSumAggregation._collect: the attributes are written first and
\* the point is built from them
SynchronousSumCollect(self, now) ==
    LET after == [self EXCEPT !.value = 0, !.start_time_unix_nano = now + 1]
    IN  [self   |-> after,
         result |-> SumPoint(DELTA, after.start_time_unix_nano, now,
                             after.value)]

NothingAggregated ==
    [total |-> 0, aggregates |-> 0, collects |-> 0, result |-> None]

ProtoInit ==
    /\ protoClock \in 0..1
    /\ proto = SynchronousSumNew(protoClock)
    /\ protoSeen = NothingAggregated

ProtoParked ==
    /\ protoClock = 0
    /\ proto = SynchronousSumNew(0)
    /\ protoSeen = NothingAggregated

ProtoAggregate ==
    /\ protoSeen.aggregates < MaxProtoAggregates
    /\ \E value \in Values :
          /\ proto' = SynchronousSumAggregate(proto, value)
          /\ protoSeen' = [protoSeen EXCEPT !.total = @ + value,
                                            !.aggregates = @ + 1]
    /\ UNCHANGED <<protoClock, notProtoVars>>

ProtoCollect ==
    /\ protoSeen.collects < MaxProtoCollects
    /\ protoClock' = protoClock + 1
    /\ LET call == SynchronousSumCollect(proto, protoClock')
       IN  /\ proto' = call.self
           /\ protoSeen' = [protoSeen EXCEPT !.total = 0,
                                             !.collects = @ + 1,
                                             !.result = Some(call.result)]
    /\ UNCHANGED notProtoVars

ProtoNext == ProtoAggregate \/ ProtoCollect

(***************************************************************************)
(* Buckets.downscale called on bucket sets of every layout                 *)
(***************************************************************************)

\* a Buckets object that holds the counts `logical` for the indexes from
\* index_start on, in a backing array with `spare` unused positions and with
\* backing[0] the count of index_start + bias (Buckets.at, lines 164-172)
BucketsHolding(logical, index_start, bias, spare) ==
    LET len == Len(logical)
        size == len + spare
    IN  [backing     |-> [i \in 1..size |->
                             IF i - 1 < len - bias
                             THEN logical[i + bias]
                             ELSE IF i - 1 >= size - bias
                             THEN logical[i - (size - bias)]
                             ELSE 0],
         counts      |-> None,
         index_base  |-> index_start + bias,
         index_start |-> index_start,
         index_end   |-> index_start + len - 1]

\* the counts of the lowest and of the highest index of a bucket set are not
\* 0: the range of a bucket set grows only to take an increment
LogicalCounts ==
    {logical \in UNION {[1..len -> 0..MaxBucketCount] : len \in 1..MaxBucketsLen} :
        logical[1] > 0 /\ logical[Len(logical)] > 0}

IndexStarts == {-3, -2, -1, 0, 1, 2}

NoDownscaleCall == [by |-> 0, bias |-> 0, calls |-> 0]

BucketInit ==
    /\ \E logical \in LogicalCounts, index_start \in IndexStarts, spare \in 0..1 :
          \E bias \in 0..(Len(logical) - 1) :
              bucket_set = BucketsHolding(logical, index_start, bias, spare)
    /\ bucketCalls = NoDownscaleCall

BucketParked ==
    /\ bucket_set = BucketsNew
    /\ bucketCalls = NoDownscaleCall

\* Buckets.downscale
BucketDownscale ==
    /\ bucketCalls.calls < MaxBucketDownscales
    /\ \E by \in 0..MaxBy :
          /\ bucket_set' = BucketsDownscale(bucket_set, by)
          /\ bucketCalls' =
                 [by    |-> by,
                  bias  |-> bucket_set.index_base - bucket_set.index_start,
                  calls |-> bucketCalls.calls + 1]
    /\ UNCHANGED notBucketVars

BucketNext == BucketDownscale

(***************************************************************************)
(* _change_scale, one iteration of its while loop at a time                *)
(***************************************************************************)

\* the body of the while loop, with a shift that rounds towards 0
ChangeScaleBodyTruncates(locals) ==
    [locals EXCEPT
        !.high = IF @ < 0 THEN 0 - ShiftRight(0 - @, 1) ELSE ShiftRight(@, 1),
        !.low = IF @ < 0 THEN 0 - ShiftRight(0 - @, 1) ELSE ShiftRight(@, 1),
        !.change = @ + 1]

\* the body of the while loop
ChangeScaleBody(locals) ==
    [locals EXCEPT !.high = ShiftRight(@, 1),
                   !.low = ShiftRight(@, 1),
                   !.change = @ + 1]

\* the indexes _change_scale is called with
ScaleIndexes == (0 - MaxIndexMagnitude)..MaxIndexMagnitude

\* max_size is at least _min_max_size
ScaleSizes == MinMaxSize..MaxChangeSize

ScalingInit ==
    \E high \in ScaleIndexes, low \in ScaleIndexes, size \in ScaleSizes :
        /\ low <= high
        /\ scaling = [high |-> high, low |-> low, size |-> size, change |-> 0,
                      returned |-> FALSE,
                      arguments |-> [high |-> high, low |-> low]]

ScalingParked ==
    scaling = [high |-> 0, low |-> 0, size |-> MinMaxSize, change |-> 0,
               returned |-> FALSE, arguments |-> [high |-> 0, low |-> 0]]

\* while high - low >= size
ChangeScaleIterate ==
    /\ ~scaling.returned
    /\ scaling.high - scaling.low >= scaling.size
    /\ scaling' = ChangeScaleBody(scaling)
    /\ UNCHANGED notScalingVars

\* return change
ChangeScaleReturn ==
    /\ ~scaling.returned
    /\ scaling.high - scaling.low < scaling.size
    /\ scaling' = [scaling EXCEPT !.returned = TRUE]
    /\ UNCHANGED notScalingVars

ScalingNext == ChangeScaleIterate \/ ChangeScaleReturn

(***************************************************************************)
(* _LastValueAggregation                                                   *)
(***************************************************************************)

\* the values of the measurements; 0 is a value, not the absence of one
LastValues == {0, 1, 2}

\* _LastValueAggregation.__init__
LastValueNew == [value |-> None]

\* _LastValueAggregation.aggregate
LastValueAggregateValue(self, value) == [self EXCEPT !.value = Some(value)]

\* collect that leaves _value as it is
LastValueCollectKeeps(self, aggregation_temporality, collection_start_nano) ==
    IF IsNone(self.value)
    THEN [result |-> None, self |-> self]
    ELSE [result |-> Some(NumberDataPoint(0, collection_start_nano,
                                          Get(self.value))),
          self   |-> self]

\* _LastValueAggregation.collect
LastValueCollectResult(self, aggregation_temporality, collection_start_nano) ==
    IF IsNone(self.value)
    THEN [result |-> None, self |-> self]
    ELSE [result |-> Some(NumberDataPoint(0, collection_start_nano,
                                          Get(self.value))),
          self   |-> [self EXCEPT !.value = None]]

NothingSeenYet ==
    [recent |-> None, calls |-> 0, collects |-> 0, result |-> None,
     temporality |-> UNSPECIFIED]

LastValueInit ==
    /\ last_value = LastValueNew
    /\ lastSeen = NothingSeenYet

LastValueParked == LastValueInit

LastValueAggregate ==
    /\ lastSeen.calls < MaxLastValueCalls
    /\ \E value \in LastValues :
          /\ last_value' = LastValueAggregateValue(last_value, value)
          /\ lastSeen' = [lastSeen EXCEPT !.recent = Some(value),
                                          !.calls = @ + 1]
    /\ UNCHANGED notLastValueVars

LastValueCollect ==
    /\ lastSeen.calls < MaxLastValueCalls
    /\ \E temporality \in {UNSPECIFIED, DELTA, CUMULATIVE} :
          LET call == LastValueCollectResult(last_value, temporality,
                                             lastSeen.calls + 1)
          IN  /\ last_value' = call.self
              /\ lastSeen' = [recent      |-> None,
                              calls       |-> lastSeen.calls + 1,
                              collects    |-> lastSeen.collects + 1,
                              result      |-> call.result,
                              temporality |-> temporality]
    /\ UNCHANGED notLastValueVars

LastValueNext == LastValueAggregate \/ LastValueCollect

(***************************************************************************)
(* _SumAggregation.aggregate called by several threads while one thread    *)
(* calls collect, one statement at a time                                  *)
(***************************************************************************)

Producers == 1..NumProducers

\* the thread of the reader
Collector == NumProducers + 1

\* with self._lock can be entered though the lock is held
EntersHeldLock(holder) ==
    TRUE

\* with self._lock can be entered
CanEnter(holder) ==
    holder = 0

WorkerIdle == [pc |-> "idle", value |-> 0, sum |-> 0]

ConcSumInit ==
    /\ shared = [value |-> 0, lock |-> 0]
    /\ workers = [t \in 1..Collector |-> WorkerIdle]
    /\ tally = [aggregates |-> 0, collects |-> 0, returned |-> 0, emitted |-> 0]

ConcSumParked == ConcSumInit

\* a producer calls aggregate with a measurement
ProducerCall(t) ==
    /\ workers[t].pc = "idle"
    /\ tally.aggregates < MaxProducerCalls
    /\ \E value \in Values :
          workers' = [workers EXCEPT ![t] = [pc    |-> "with",
                                             value |-> value,
                                             sum   |-> 0]]
    /\ tally' = [tally EXCEPT !.aggregates = @ + 1]
    /\ UNCHANGED <<shared, notConcSumVars>>

\* with self._lock:
WorkerEnter(t) ==
    /\ workers[t].pc = "with"
    /\ CanEnter(shared.lock)
    /\ shared' = [shared EXCEPT !.lock = t]
    /\ workers' = [workers EXCEPT ![t].pc =
                      IF t = Collector THEN "read" ELSE "add"]
    /\ UNCHANGED <<tally, notConcSumVars>>

\* the right-hand side of self._value = self._value + measurement.value
ProducerAdd(t) ==
    /\ workers[t].pc = "add"
    /\ workers' = [workers EXCEPT ![t].pc = "store",
                                  ![t].sum = shared.value + workers[t].value]
    /\ UNCHANGED <<shared, tally, notConcSumVars>>

\* the assignment of self._value = self._value + measurement.value
ProducerStore(t) ==
    /\ workers[t].pc = "store"
    /\ shared' = [shared EXCEPT !.value = workers[t].sum]
    /\ workers' = [workers EXCEPT ![t].pc = "leave", ![t].sum = 0]
    /\ UNCHANGED <<tally, notConcSumVars>>

\* the with block is left
WorkerLeave(t) ==
    /\ workers[t].pc = "leave"
    /\ shared' = [shared EXCEPT !.lock = IF @ = t THEN 0 ELSE @]
    /\ workers' = [workers EXCEPT ![t].pc = "return"]
    /\ UNCHANGED <<tally, notConcSumVars>>

\* aggregate returns
ProducerReturn(t) ==
    /\ t \in Producers
    /\ workers[t].pc = "return"
    /\ workers' = [workers EXCEPT ![t].pc = "idle", ![t].value = 0]
    /\ tally' = [tally EXCEPT !.returned = @ + workers[t].value]
    /\ UNCHANGED <<shared, notConcSumVars>>

\* the reader calls collect for DELTA
CollectorCall ==
    /\ workers[Collector].pc = "idle"
    /\ tally.collects < MaxCollectorCalls
    /\ workers' = [workers EXCEPT ![Collector].pc = "with"]
    /\ tally' = [tally EXCEPT !.collects = @ + 1]
    /\ UNCHANGED <<shared, notConcSumVars>>

\* value = self._value
CollectorRead ==
    /\ workers[Collector].pc = "read"
    /\ workers' = [workers EXCEPT ![Collector].pc = "reset",
                                  ![Collector].value = shared.value]
    /\ UNCHANGED <<shared, tally, notConcSumVars>>

\* self._value = 0
CollectorReset ==
    /\ workers[Collector].pc = "reset"
    /\ shared' = [shared EXCEPT !.value = 0]
    /\ workers' = [workers EXCEPT ![Collector].pc = "leave"]
    /\ UNCHANGED <<tally, notConcSumVars>>

\* collect returns the point built from value: the instrument temporality is
\* the one asked for
CollectorReturn ==
    /\ workers[Collector].pc = "return"
    /\ workers' = [workers EXCEPT ![Collector].pc = "idle",
                                  ![Collector].value = 0]
    /\ tally' = [tally EXCEPT !.emitted = @ + workers[Collector].value]
    /\ UNCHANGED <<shared, notConcSumVars>>

ConcSumNext ==
    \/ \E t \in Producers : ProducerCall(t)
    \/ \E t \in Producers : ProducerAdd(t)
    \/ \E t \in Producers : ProducerStore(t)
    \/ \E t \in Producers : ProducerReturn(t)
    \/ \E t \in 1..Collector : WorkerEnter(t)
    \/ \E t \in 1..Collector : WorkerLeave(t)
    \/ CollectorCall
    \/ CollectorRead
    \/ CollectorReset
    \/ CollectorReturn

(***************************************************************************)
(* _ExplicitBucketHistogramAggregation.aggregate called by several threads *)
(* while one thread calls collect, one statement at a time; the values are *)
(* 1 and 2 and the boundaries (1,), so that 1 falls in the first bucket    *)
(* and 2 in the second                                                     *)
(***************************************************************************)

\* the list objects: the one of __init__ and one per collect
ListIds == 0..MaxCollectorCalls

\* bisect_left(self._boundaries, value) + 1 with the boundaries (1,), the
\* index counted from 1
BucketOf(value) == IF value <= 1 THEN 1 ELSE 2

HistWorkerIdle == [pc |-> "idle", value |-> 0, sum |-> 0, list |-> 0, cell |-> 0]

ConcHistInit ==
    /\ shared_hist = [sum    |-> 0,
                      lists  |-> [l \in ListIds |-> EmptyBucketCounts(<<1>>)],
                      bucket_counts |-> 0]
    /\ hist_workers = [t \in 1..Collector |-> HistWorkerIdle]
    /\ hist_tally = [aggregates |-> 0, collects |-> 0, returned |-> 0,
                     returned_sum |-> 0, count |-> 0, sum |-> 0,
                     torn |-> FALSE]

ConcHistParked == ConcHistInit

\* a producer calls aggregate with a measurement: value = measurement.value
HistProducerCall(t) ==
    /\ hist_workers[t].pc = "idle"
    /\ hist_tally.aggregates < MaxProducerCalls
    /\ \E value \in Values :
          hist_workers' = [hist_workers EXCEPT
                              ![t] = [HistWorkerIdle EXCEPT !.pc = "add",
                                                            !.value = value]]
    /\ hist_tally' = [hist_tally EXCEPT !.aggregates = @ + 1]
    /\ UNCHANGED <<shared_hist, notConcHistVars>>

\* the right-hand side of self._sum += value
HistProducerAdd(t) ==
    /\ hist_workers[t].pc = "add"
    /\ hist_workers' = [hist_workers EXCEPT
                           ![t].pc = "store",
                           ![t].sum = shared_hist.sum + hist_workers[t].value]
    /\ UNCHANGED <<shared_hist, hist_tally, notConcHistVars>>

\* the assignment of self._sum += value
HistProducerStore(t) ==
    /\ hist_workers[t].pc = "store"
    /\ shared_hist' = [shared_hist EXCEPT !.sum = hist_workers[t].sum]
    /\ hist_workers' = [hist_workers EXCEPT ![t].pc = "item"]
    /\ UNCHANGED <<hist_tally, notConcHistVars>>

\* the right-hand side of self._bucket_counts[...] += 1: the list the
\* attribute names and the item of it
HistProducerItem(t) ==
    /\ hist_workers[t].pc = "item"
    /\ LET list == shared_hist.bucket_counts
       IN  hist_workers' = [hist_workers EXCEPT
                               ![t].pc = "setitem",
                               ![t].list = list,
                               ![t].cell = shared_hist.lists[list]
                                              [BucketOf(hist_workers[t].value)]
                                           + 1]
    /\ UNCHANGED <<shared_hist, hist_tally, notConcHistVars>>

\* the assignment of self._bucket_counts[...] += 1, into the list that was
\* read, and the return of aggregate
HistProducerSetItem(t) ==
    /\ hist_workers[t].pc = "setitem"
    /\ shared_hist' = [shared_hist EXCEPT
                          !.lists[hist_workers[t].list]
                                 [BucketOf(hist_workers[t].value)] =
                              hist_workers[t].cell]
    /\ hist_tally' = [hist_tally EXCEPT
                         !.returned = @ + 1,
                         !.returned_sum = @ + hist_workers[t].value]
    /\ hist_workers' = [hist_workers EXCEPT ![t] = HistWorkerIdle]
    /\ UNCHANGED notConcHistVars

\* the reader calls collect for DELTA: with self._lock, which no other
\* thread takes, and if not any(self._bucket_counts): return None
HistCollectorCall ==
    /\ hist_workers[Collector].pc = "idle"
    /\ hist_tally.collects < MaxCollectorCalls
    /\ hist_workers' = [hist_workers EXCEPT
                           ![Collector].pc =
                               IF shared_hist.lists[shared_hist.bucket_counts]
                                     = EmptyBucketCounts(<<1>>)
                               THEN "idle"
                               ELSE "bucket_counts"]
    /\ hist_tally' = [hist_tally EXCEPT !.collects = @ + 1]
    /\ UNCHANGED <<shared_hist, notConcHistVars>>

\* bucket_counts = self._bucket_counts
HistCollectorBucketCounts ==
    /\ hist_workers[Collector].pc = "bucket_counts"
    /\ hist_workers' = [hist_workers EXCEPT
                           ![Collector].pc = "sum_",
                           ![Collector].list = shared_hist.bucket_counts]
    /\ UNCHANGED <<shared_hist, hist_tally, notConcHistVars>>

\* sum_ = self._sum
HistCollectorSum ==
    /\ hist_workers[Collector].pc = "sum_"
    /\ hist_workers' = [hist_workers EXCEPT
                           ![Collector].pc = "empty",
                           ![Collector].sum = shared_hist.sum]
    /\ UNCHANGED <<shared_hist, hist_tally, notConcHistVars>>

\* self._bucket_counts = self._get_empty_bucket_counts()
HistCollectorEmpty ==
    /\ hist_workers[Collector].pc = "empty"
    /\ shared_hist' = [shared_hist EXCEPT !.bucket_counts = hist_tally.collects]
    /\ hist_workers' = [hist_workers EXCEPT ![Collector].pc = "zero"]
    /\ UNCHANGED <<hist_tally, notConcHistVars>>

\* self._sum = 0
HistCollectorZero ==
    /\ hist_workers[Collector].pc = "zero"
    /\ shared_hist' = [shared_hist EXCEPT !.sum = 0]
    /\ hist_workers' = [hist_workers EXCEPT ![Collector].pc = "point"]
    /\ UNCHANGED <<hist_tally, notConcHistVars>>

\* current_point = HistogramDataPoint(count=sum(bucket_counts), sum=sum_,
\* bucket_counts=tuple(bucket_counts)) and its return: the instrument
\* temporality is the one asked for
HistCollectorPoint ==
    /\ hist_workers[Collector].pc = "point"
    /\ LET bucket_counts == shared_hist.lists[hist_workers[Collector].list]
           sum_ == hist_workers[Collector].sum
       IN  hist_tally' = [hist_tally EXCEPT
                             !.count = @ + bucket_counts[1] + bucket_counts[2],
                             !.sum = @ + sum_,
                             !.torn = @ \/ sum_ # bucket_counts[1]
                                                  + 2 * bucket_counts[2]]
    /\ hist_workers' = [hist_workers EXCEPT ![Collector] = HistWorkerIdle]
    /\ UNCHANGED <<shared_hist, notConcHistVars>>

ConcHistNext ==
    \/ \E t \in Producers : HistProducerCall(t)
    \/ \E t \in Producers : HistProducerAdd(t)
    \/ \E t \in Producers : HistProducerStore(t)
    \/ \E t \in Producers : HistProducerItem(t)
    \/ \E t \in Producers : HistProducerSetItem(t)
    \/ HistCollectorCall
    \/ HistCollectorBucketCounts
    \/ HistCollectorSum
    \/ HistCollectorEmpty
    \/ HistCollectorZero
    \/ HistCollectorPoint

(***************************************************************************)
(* set_meter_provider called by two threads while a third calls            *)
(* get_meter_provider, one statement at a time                             *)
(***************************************************************************)

RaceInit ==
    /\ globals \in [meter_provider : {None}, proxy_meter_provider : {FALSE},
                    environ : BOOLEAN]
    /\ setters = [provider \in Providers |-> "idle"]
    /\ getter = [pc |-> "idle", calls |-> 0]
    /\ observed = <<>>

RaceParked ==
    /\ globals = [meter_provider |-> None, proxy_meter_provider |-> FALSE,
                  environ |-> FALSE]
    /\ setters = [provider \in Providers |-> "idle"]
    /\ getter = [pc |-> "idle", calls |-> 0]
    /\ observed = <<>>

\* set_meter_provider(provider): if _METER_PROVIDER is not None, with the
\* warning and the return
SetterCheck(provider) ==
    /\ setters[provider] = "idle"
    /\ setters' = [setters EXCEPT ![provider] =
                      IF IsNone(globals.meter_provider) THEN "assign"
                      ELSE "returned"]
    /\ UNCHANGED <<globals, getter, observed, notRaceVars>>

\* _METER_PROVIDER = meter_provider
SetterAssign(provider) ==
    /\ setters[provider] = "assign"
    /\ globals' = [globals EXCEPT !.meter_provider = Some(provider)]
    /\ setters' = [setters EXCEPT ![provider] = "returned"]
    /\ UNCHANGED <<getter, observed, notRaceVars>>

\* get_meter_provider(): if _METER_PROVIDER is None, and
\* if OTEL_PYTHON_METER_PROVIDER not in environ.keys()
GetterCheck ==
    /\ getter.pc = "idle"
    /\ getter.calls < MaxGetterCalls
    /\ getter' = [pc    |-> IF ~IsNone(globals.meter_provider) THEN "return"
                            ELSE IF globals.environ THEN "load"
                            ELSE "proxy",
                  calls |-> getter.calls + 1]
    /\ UNCHANGED <<globals, setters, observed, notRaceVars>>

\* if _PROXY_METER_PROVIDER is None: _PROXY_METER_PROVIDER =
\* ProxyMeterProvider(), and return _PROXY_METER_PROVIDER
GetterProxy ==
    /\ getter.pc = "proxy"
    /\ globals' = [globals EXCEPT !.proxy_meter_provider = TRUE]
    /\ getter' = [getter EXCEPT !.pc = "idle"]
    /\ UNCHANGED <<setters, observed, notRaceVars>>

\* _METER_PROVIDER = cast("MeterProvider", _load_provider(...))
GetterLoad ==
    /\ getter.pc = "load"
    /\ globals' = [globals EXCEPT !.meter_provider = Some(LoadedProvider)]
    /\ getter' = [getter EXCEPT !.pc = "return"]
    /\ UNCHANGED <<setters, observed, notRaceVars>>

\* return _METER_PROVIDER
GetterReturn ==
    /\ getter.pc = "return"
    /\ observed' = Append(observed, Get(globals.meter_provider))
    /\ getter' = [getter EXCEPT !.pc = "idle"]
    /\ UNCHANGED <<globals, setters, notRaceVars>>

RaceNext ==
    \/ \E provider \in Providers : SetterCheck(provider)
    \/ \E provider \in Providers : SetterAssign(provider)
    \/ GetterCheck
    \/ GetterProxy
    \/ GetterLoad
    \/ GetterReturn

(***************************************************************************)
(* Specifications: one per component, the other components left as         *)
(* constructed.                                                            *)
(***************************************************************************)
SumSpecInit ==
    /\ SumInit
    /\ ExportInit
    /\ LockParked
    /\ HistParked
    /\ ExpoParked
    /\ DefaultParked
    /\ PatchParked
    /\ MeterParked
    /\ ObserveParked
    /\ TranslateParked
    /\ ProtoParked
    /\ BucketParked
    /\ ScalingParked
    /\ LastValueParked
    /\ ConcSumParked
    /\ ConcHistParked
    /\ RaceParked

SumSpec == SumSpecInit /\ [][SumNext]_vars

ExportSpecInit ==
    /\ ExportInit
    /\ SumParked
    /\ LockParked
    /\ HistParked
    /\ ExpoParked
    /\ DefaultParked
    /\ PatchParked
    /\ MeterParked
    /\ ObserveParked
    /\ TranslateParked
    /\ ProtoParked
    /\ BucketParked
    /\ ScalingParked
    /\ LastValueParked
    /\ ConcSumParked
    /\ ConcHistParked
    /\ RaceParked

ExportSpec == ExportSpecInit /\ [][ExportNext]_vars

LockSpecInit ==
    /\ LockInit
    /\ SumParked
    /\ ExportInit
    /\ HistParked
    /\ ExpoParked
    /\ DefaultParked
    /\ PatchParked
    /\ MeterParked
    /\ ObserveParked
    /\ TranslateParked
    /\ ProtoParked
    /\ BucketParked
    /\ ScalingParked
    /\ LastValueParked
    /\ ConcSumParked
    /\ ConcHistParked
    /\ RaceParked

LockSpec == LockSpecInit /\ [][LockNext]_vars

HistSpecInit ==
    /\ HistInit
    /\ SumParked
    /\ ExportInit
    /\ LockParked
    /\ ExpoParked
    /\ DefaultParked
    /\ PatchParked
    /\ MeterParked
    /\ ObserveParked
    /\ TranslateParked
    /\ ProtoParked
    /\ BucketParked
    /\ ScalingParked
    /\ LastValueParked
    /\ ConcSumParked
    /\ ConcHistParked
    /\ RaceParked

HistSpec == HistSpecInit /\ [][HistNext]_vars

ExpoSpecInit ==
    /\ ExpoInit
    /\ SumParked
    /\ ExportInit
    /\ LockParked
    /\ HistParked
    /\ DefaultParked
    /\ PatchParked
    /\ MeterParked
    /\ ObserveParked
    /\ TranslateParked
    /\ ProtoParked
    /\ BucketParked
    /\ ScalingParked
    /\ LastValueParked
    /\ ConcSumParked
    /\ ConcHistParked
    /\ RaceParked

ExpoSpec == ExpoSpecInit /\ [][ExpoNext]_vars

DefaultSpecInit ==
    /\ DefaultInit
    /\ SumParked
    /\ ExportInit
    /\ LockParked
    /\ HistParked
    /\ ExpoParked
    /\ PatchParked
    /\ MeterParked
    /\ ObserveParked
    /\ TranslateParked
    /\ ProtoParked
    /\ BucketParked
    /\ ScalingParked
    /\ LastValueParked
    /\ ConcSumParked
    /\ ConcHistParked
    /\ RaceParked

DefaultSpec == DefaultSpecInit /\ [][DefaultNext]_vars

PatchSpecInit ==
    /\ PatchInit
    /\ SumParked
    /\ ExportInit
    /\ LockParked
    /\ HistParked
    /\ ExpoParked
    /\ DefaultParked
    /\ MeterParked
    /\ ObserveParked
    /\ TranslateParked
    /\ ProtoParked
    /\ BucketParked
    /\ ScalingParked
    /\ LastValueParked
    /\ ConcSumParked
    /\ ConcHistParked
    /\ RaceParked

PatchSpec == PatchSpecInit /\ [][PatchNext]_vars

MeterSpecInit ==
    /\ MeterInit
    /\ SumParked
    /\ ExportInit
    /\ LockParked
    /\ HistParked
    /\ ExpoParked
    /\ DefaultParked
    /\ PatchParked
    /\ ObserveParked
    /\ TranslateParked
    /\ ProtoParked
    /\ BucketParked
    /\ ScalingParked
    /\ LastValueParked
    /\ ConcSumParked
    /\ ConcHistParked
    /\ RaceParked

MeterSpec == MeterSpecInit /\ [][MeterNext]_vars

ObserveSpecInit ==
    /\ ObserveInit
    /\ SumParked
    /\ ExportInit
    /\ LockParked
    /\ HistParked
    /\ ExpoParked
    /\ DefaultParked
    /\ PatchParked
    /\ MeterParked
    /\ TranslateParked
    /\ ProtoParked
    /\ BucketParked
    /\ ScalingParked
    /\ LastValueParked
    /\ ConcSumParked
    /\ ConcHistParked
    /\ RaceParked

\* the collecting thread keeps running: a step it can take is taken
ObserveSpec == ObserveSpecInit /\ [][ObserveNext]_vars /\ WF_vars(ObserveNext)

TranslateSpecInit ==
    /\ TranslateInit
    /\ ObserveParked
    /\ SumParked
    /\ ExportInit
    /\ LockParked
    /\ HistParked
    /\ ExpoParked
    /\ DefaultParked
    /\ PatchParked
    /\ MeterParked
    /\ ProtoParked
    /\ BucketParked
    /\ ScalingParked
    /\ LastValueParked
    /\ ConcSumParked
    /\ ConcHistParked
    /\ RaceParked

TranslateSpec == TranslateSpecInit /\ [][TranslateNext]_vars

ProtoSpecInit ==
    /\ ProtoInit
    /\ TranslateParked
    /\ ObserveParked
    /\ SumParked
    /\ ExportInit
    /\ LockParked
    /\ HistParked
    /\ ExpoParked
    /\ DefaultParked
    /\ PatchParked
    /\ MeterParked
    /\ BucketParked
    /\ ScalingParked
    /\ LastValueParked
    /\ ConcSumParked
    /\ ConcHistParked
    /\ RaceParked

ProtoSpec == ProtoSpecInit /\ [][ProtoNext]_vars

BucketSpecInit ==
    /\ BucketInit
    /\ ProtoParked
    /\ TranslateParked
    /\ ObserveParked
    /\ SumParked
    /\ ExportInit
    /\ LockParked
    /\ HistParked
    /\ ExpoParked
    /\ DefaultParked
    /\ PatchParked
    /\ MeterParked
    /\ ScalingParked
    /\ LastValueParked
    /\ ConcSumParked
    /\ ConcHistParked
    /\ RaceParked

BucketSpec == BucketSpecInit /\ [][BucketNext]_vars

ScalingSpecInit ==
    /\ ScalingInit
    /\ BucketParked
    /\ ProtoParked
    /\ TranslateParked
    /\ ObserveParked
    /\ SumParked
    /\ ExportInit
    /\ LockParked
    /\ HistParked
    /\ ExpoParked
    /\ DefaultParked
    /\ PatchParked
    /\ MeterParked
    /\ LastValueParked
    /\ ConcSumParked
    /\ ConcHistParked
    /\ RaceParked

ScalingSpec ==
    ScalingSpecInit /\ [][ScalingNext]_vars /\ WF_vars(ScalingNext)

LastValueSpecInit ==
    /\ LastValueInit
    /\ ScalingParked
    /\ BucketParked
    /\ ProtoParked
    /\ TranslateParked
    /\ ObserveParked
    /\ SumParked
    /\ ExportInit
    /\ LockParked
    /\ HistParked
    /\ ExpoParked
    /\ DefaultParked
    /\ PatchParked
    /\ MeterParked
    /\ ConcSumParked
    /\ ConcHistParked
    /\ RaceParked

LastValueSpec == LastValueSpecInit /\ [][LastValueNext]_vars

ConcSumSpecInit ==
    /\ ConcSumInit
    /\ LastValueParked
    /\ ScalingParked
    /\ BucketParked
    /\ ProtoParked
    /\ TranslateParked
    /\ ObserveParked
    /\ SumParked
    /\ ExportInit
    /\ LockParked
    /\ HistParked
    /\ ExpoParked
    /\ DefaultParked
    /\ PatchParked
    /\ MeterParked
    /\ ConcHistParked
    /\ RaceParked

ConcSumSpec == ConcSumSpecInit /\ [][ConcSumNext]_vars

ConcHistSpecInit ==
    /\ ConcHistInit
    /\ ConcSumParked
    /\ LastValueParked
    /\ ScalingParked
    /\ BucketParked
    /\ ProtoParked
    /\ TranslateParked
    /\ ObserveParked
    /\ SumParked
    /\ ExportInit
    /\ LockParked
    /\ HistParked
    /\ ExpoParked
    /\ DefaultParked
    /\ PatchParked
    /\ MeterParked
    /\ RaceParked

ConcHistSpec == ConcHistSpecInit /\ [][ConcHistNext]_vars

RaceSpecInit ==
    /\ RaceInit
    /\ ConcHistParked
    /\ ConcSumParked
    /\ LastValueParked
    /\ ScalingParked
    /\ BucketParked
    /\ ProtoParked
    /\ TranslateParked
    /\ ObserveParked
    /\ SumParked
    /\ ExportInit
    /\ LockParked
    /\ HistParked
    /\ ExpoParked
    /\ DefaultParked
    /\ PatchParked
    /\ MeterParked

RaceSpec == RaceSpecInit /\ [][RaceNext]_vars

(***************************************************************************)
(* Properties of _SumAggregation, over the history of collect calls.       *)
(***************************************************************************)
NaturalIs(t) == sum.instrument_temporality = t
OutputIs(t) == preferred_temporality = t

\* total of the values aggregated before the i-th collect, since creation
RECURSIVE TotalUpTo(_)
TotalUpTo(i) == IF i = 0 THEN 0 ELSE collected[i].aggregated.total + TotalUpTo(i - 1)

\* the points emitted so far, in order
EmittedPoints == 
    LET RECURSIVE Pts(_)
        Pts(i) == IF i = 0 THEN <<>>
                  ELSE Pts(i - 1) \o collected[i].result
    IN Pts(Len(collected))

\* one observation was aggregated before each collect made so far
OneObservationPerCollect ==
    \A i \in 1..Len(collected) : collected[i].aggregated.n = 1

C2_DeltaCollectWithoutAggregateReturnsNone ==
    (NaturalIs(DELTA) /\ OutputIs(DELTA)) =>
        \A i \in 2..Len(collected) :
            collected[i].aggregated.n = 0 => collected[i].result = None

\* C3 as stated: natural CUMULATIVE, CUMULATIVE output: collect never resets
\* the accumulator, so that every collect made after the first aggregate call
\* returns the total of all values aggregated since creation.
C3_CumulativeCollectReturnsRunningTotal ==
    (NaturalIs(CUMULATIVE) /\ OutputIs(CUMULATIVE)) =>
        \A i \in 1..Len(collected) :
            TotalUpTo(i) > 0 =>
                /\ collected[i].result # None
                /\ Get(collected[i].result).value = TotalUpTo(i)

\* C3 amended: natural CUMULATIVE, CUMULATIVE output: collect resets the
\* accumulator to None; a collect made after at least one aggregate call
\* since the previous collect returns the sum of the values aggregated since
\* the previous collect, and any other collect returns None.
C3_CumulativeCollectReturnsIntervalSum ==
    (NaturalIs(CUMULATIVE) /\ OutputIs(CUMULATIVE)) =>
        /\ \A i \in 1..Len(collected) :
              IF collected[i].aggregated.n = 0
              THEN collected[i].result = None
              ELSE /\ collected[i].result # None
                   /\ Get(collected[i].result).value
                          = collected[i].aggregated.total
        /\ interval.n = 0 => sum.value = None

C3_Witness ==
    /\ NaturalIs(CUMULATIVE) /\ OutputIs(CUMULATIVE)
    /\ Len(collected) = 3
    /\ collected[1].aggregated = [n |-> 1, total |-> 1]
    /\ collected[2].aggregated = [n |-> 2, total |-> 3]
    /\ collected[3].aggregated = [n |-> 0, total |-> 0]
    /\ Get(collected[2].result).value = 3
    /\ collected[3].result = None

\* C4: natural DELTA, CUMULATIVE output: the n-th collect returns a point
\* whose value is the sum of all values aggregated since creation and whose
\* start_time_unix_nano is that of the first point; a collect with no
\* aggregate since the previous one returns the unchanged total.
C4_DeltaToCumulativeRunningTotal ==
    (NaturalIs(DELTA) /\ OutputIs(CUMULATIVE)) =>
        \A i \in 1..Len(collected) :
            /\ collected[i].result # None
            /\ Get(collected[i].result).value = TotalUpTo(i)
            /\ Get(collected[i].result).start_time_unix_nano
                  = Get(collected[1].result).start_time_unix_nano
            /\ (i > 1 /\ collected[i].aggregated.n = 0) =>
                  Get(collected[i].result).value
                     = Get(collected[i - 1].result).value

C4_Witness ==
    /\ NaturalIs(DELTA) /\ OutputIs(CUMULATIVE)
    /\ Len(collected) = 3
    /\ collected[1].aggregated = [n |-> 1, total |-> 2]
    /\ collected[2].aggregated = [n |-> 2, total |-> 3]
    /\ collected[3].aggregated.n = 0
    /\ Get(collected[2].result).value = 5
    /\ Get(collected[3].result).value = 5
    /\ Get(collected[3].result).start_time_unix_nano = 0

\* C5: natural CUMULATIVE, DELTA output, one observation c_n aggregated before
\* the n-th collect: the first point's value is c_1 and the n-th point's
\* value is c_n - c_(n-1) for n >= 2.
C5_CumulativeToDeltaDifferences ==
    (NaturalIs(CUMULATIVE) /\ OutputIs(DELTA) /\ OneObservationPerCollect) =>
        \A i \in 1..Len(collected) :
            /\ collected[i].result # None
            /\ Get(collected[i].result).value =
                  collected[i].aggregated.total
                  - (IF i = 1 THEN 0 ELSE collected[i - 1].aggregated.total)

\* C6: natural CUMULATIVE, DELTA output, one observation c_n aggregated before
\* the n-th collect: the sum of the values of the first n points is c_n.
C6_DeltaRoundTrip ==
    (NaturalIs(CUMULATIVE) /\ OutputIs(DELTA) /\ OneObservationPerCollect) =>
        \A i \in 1..Len(collected) :
            SeqSum([j \in 1..i |-> IF collected[j].result = None THEN 0
                                   ELSE Get(collected[j].result).value])
               = collected[i].aggregated.total

\* C7: DELTA output (natural DELTA or CUMULATIVE), collection times strictly
\* increasing: every emitted point after the first starts at the time of
\* the point emitted before it, and every emitted point starts before its
\* own time.
C7_DeltaPointsAreContiguous ==
    OutputIs(DELTA) =>
        /\ \A k \in 2..Len(EmittedPoints) :
              EmittedPoints[k].start_time_unix_nano
                 = EmittedPoints[k - 1].time_unix_nano
        /\ \A k \in 1..Len(EmittedPoints) :
              EmittedPoints[k].start_time_unix_nano
                 < EmittedPoints[k].time_unix_nano

C7_Witness ==
    /\ NaturalIs(CUMULATIVE) /\ OutputIs(DELTA)
    /\ Len(collected) = 3
    /\ collected[1].result # None
    /\ collected[2].result = None
    /\ collected[3].result # None
    /\ Len(EmittedPoints) = 2
    /\ EmittedPoints[2].start_time_unix_nano = collected[1].time
    /\ EmittedPoints[2].time_unix_nano = collected[3].time

(***************************************************************************)
(* Properties of the exporters' retry loop, over the history of attempts.  *)
(***************************************************************************)
ExportEnded == export.status \in {"returned", "raised"}

RetryableFailure(a) == a.error /\ a.code \in RetryableCodes

\* C8: export of either exporter never raises: whatever the transport does,
\* the call ends by returning SUCCESS or FAILURE.
C8_ExportNeverRaises ==
    ExportEnded =>
        /\ export.status = "returned"
        /\ export.value \in {"SUCCESS", "FAILURE"}

\* C9: with a finite delay sequence and every attempt failing with a
\* retryable status, export ends by returning FAILURE.
C9_ExhaustedBackoffReturnsFailure ==
    (/\ ExportEnded
     /\ export.gen.mocked
     /\ \A i \in 1..Len(attempts) : RetryableFailure(attempts[i])) =>
        /\ export.status = "returned"
        /\ export.value = "FAILURE"

\* C10: every attempt that fails with a retryable status is followed by
\* exactly one sleep, for the retry delay of the trailing metadata when there
\* is one and for the current backoff value otherwise.
C10_SleepsForRetryDelayOrBackoff ==
    LET retried == SelectSeq(attempts, RetryableFailure) IN
    /\ Len(slept) = Len(retried)
    /\ \A i \in 1..Len(retried) :
          i <= Len(slept) =>
             slept[i] = IF retried[i].retry_delay # None
                        THEN Get(retried[i].retry_delay)
                        ELSE retried[i].delay

TerminalFailure(a) == a.error /\ a.code \notin RetryableCodes \cup {"OK"}

\* C11: an attempt that fails with a status that is neither OK nor retryable
\* ends export at once with FAILURE: it is the last attempt and no sleep
\* follows it.
C11_TerminalStatusReturnsFailure ==
    \A i \in 1..Len(attempts) :
        TerminalFailure(attempts[i]) =>
            /\ i = Len(attempts)
            /\ export.status = "returned"
            /\ export.value = "FAILURE"
            /\ Len(slept) = i - 1

\* C12: an attempt that succeeds is the last one and export returns SUCCESS;
\* against a peer answering UNAVAILABLE once and then OK, export is still
\* running after the first attempt, having slept once, and returns SUCCESS
\* after exactly two attempts and one sleep.
C12_SuccessEndsExport ==
    /\ \A i \in 1..Len(attempts) :
          ~attempts[i].error =>
             /\ i = Len(attempts)
             /\ export.status = "returned"
             /\ export.value = "SUCCESS"
    /\ (/\ ~export.gen.mocked
        /\ Len(attempts) >= 1
        /\ attempts[1].error /\ attempts[1].code = "UNAVAILABLE") =>
          /\ Len(slept) >= 1
          /\ Len(attempts) = 1 => export.status = "running"
          /\ (Len(attempts) = 2 /\ ~attempts[2].error) =>
                /\ export.status = "returned"
                /\ export.value = "SUCCESS"
                /\ Len(slept) = 1

\* C13: with expo(max_value=900) and a peer answering UNAVAILABLE without a
\* retry delay to every attempt, export does not raise, ends only by
\* returning FAILURE, and sleeps for non-decreasing delays of at most 900.
C13_AlwaysUnavailableEndsInFailure ==
    (/\ ~export.gen.mocked
     /\ \A i \in 1..Len(attempts) :
           /\ attempts[i].error
           /\ attempts[i].code = "UNAVAILABLE"
           /\ attempts[i].retry_delay = None) =>
        /\ export.status # "raised"
        /\ export.status = "returned" => export.value = "FAILURE"
        /\ \A k \in 1..Len(slept) : slept[k] <= 900
        /\ \A k \in 2..Len(slept) : slept[k - 1] <= slept[k]

(***************************************************************************)
(* Properties of the locking discipline.                                   *)
(***************************************************************************)
\* C14: every read or write of an aggregator's mutable state is made by a
\* thread that holds the aggregator's lock, so no two threads are inside
\* such an access at the same time.
C14_AccessesHoldTheLock ==
    /\ \A t \in Threads : threads[t].accessing # "" => lock = t
    /\ \A t, u \in Threads :
          (threads[t].accessing # "" /\ threads[u].accessing # "") => t = u

(***************************************************************************)
(* Properties of the explicit-bucket histogram.                            *)
(***************************************************************************)
\* the buckets whose count the last aggregate call raised by one
Incremented == {i \in DOMAIN hist.bucket_counts :
                    hist.bucket_counts[i] = histLast.before[i] + 1}

\* the buckets the last aggregate call left as they were
Untouched == {i \in DOMAIN hist.bucket_counts :
                  hist.bucket_counts[i] = histLast.before[i]}

OneBucketIncremented ==
    /\ Cardinality(Incremented) = 1
    /\ Incremented \cup Untouched = DOMAIN hist.bucket_counts

\* C15 as stated: aggregate(v) increments exactly one bucket by one, the one
\* at the position of the first boundary strictly greater than v (the
\* overflow bucket when there is none), so that a value equal to b_i is
\* counted after b_i's position.
C15_FirstBoundaryStrictlyGreater ==
    histLast.op = "aggregate" =>
        /\ OneBucketIncremented
        /\ \A i \in Incremented :
              /\ i = Len(hist.boundaries) + 1
                    \/ hist.boundaries[i] > histLast.value
              /\ \A j \in 1..(i - 1) : hist.boundaries[j] <= histLast.value

\* C15 amended: aggregate(v) increments exactly one bucket by one, the one at
\* the position of the first boundary greater than or equal to v (the
\* overflow bucket when v exceeds every boundary), so that a value equal to
\* b_i is counted at b_i's own position.
C15_FirstBoundaryNotLess ==
    histLast.op = "aggregate" =>
        /\ OneBucketIncremented
        /\ \A i \in Incremented :
              /\ i = Len(hist.boundaries) + 1
                    \/ hist.boundaries[i] >= histLast.value
              /\ \A j \in 1..(i - 1) : hist.boundaries[j] < histLast.value

\* a value equal to the second of three boundaries has just been aggregated
C15_Witness ==
    /\ histLast.op = "aggregate"
    /\ Len(hist.boundaries) = 3
    /\ histLast.value = hist.boundaries[2]
    /\ Incremented = {2}

CumulativePointEmitted ==
    /\ hist_temporality = CUMULATIVE
    /\ histLast.op = "collect"
    /\ ~IsNone(histLast.result)

CountsAndSumSinceCreation ==
    /\ Get(histLast.result).bucket_counts = histEver.bucket_counts
    /\ Get(histLast.result).sum = histEver.sum

MinMaxSinceCreation ==
    /\ Get(histLast.result).min = histEver.min
    /\ Get(histLast.result).max = histEver.max

\* C16 as stated: with CUMULATIVE output every emitted point has per-bucket
\* counts, sum, min and max over all measurements since creation.
C16_CumulativePointCoversCreation ==
    CumulativePointEmitted =>
        CountsAndSumSinceCreation /\ MinMaxSinceCreation

\* C16 amended: with CUMULATIVE output every emitted point has per-bucket
\* counts and sum over all measurements since creation, and min and max over
\* all of them when the aggregator records min and max; when it does not,
\* min is inf and max is -inf.
C16_CumulativePointCoversCreationWhenRecorded ==
    CumulativePointEmitted =>
        /\ CountsAndSumSinceCreation
        /\ IF hist.record_min_max
           THEN MinMaxSinceCreation
           ELSE /\ Get(histLast.result).min = Inf
                /\ Get(histLast.result).max = NegInf

\* the second emitted cumulative point, over measurements that differ
C16_Witness ==
    /\ CumulativePointEmitted
    /\ hist.record_min_max
    /\ histEver.emitted >= 2
    /\ Get(histLast.result).min < Get(histLast.result).max
    /\ Get(histLast.result).count = histEver.aggregates

(***************************************************************************)
(* Properties of the exponential histogram.                                *)
(***************************************************************************)
IndexRangeFits(self, buckets) ==
    buckets.index_end - buckets.index_start < self.max_size

\* C17: in every reachable state, after any aggregate, downscale, grow and
\* merge steps, both bucket sets satisfy index_end - index_start < max_size.
C17_IndexRangeBelowMaxSize ==
    /\ IndexRangeFits(expo, expo.positive)
    /\ IndexRangeFits(expo, expo.negative)

\* a recording has downscaled a bucket set that holds a count
C17_Witness ==
    /\ expo.mapping.scale < MaxScale
    /\ BucketsLen(expo.positive) > 0
    /\ expo.positive.index_start > 0
    /\ expoLast.op \in {"aggregate", "merge"}

\* the bucket set a nonzero value is recorded in
SetOf(self, value) == IF value > 0 THEN self.positive ELSE self.negative

\* the count a bucket set holds for a logical index
CountAtIndex(buckets, index) ==
    IF BucketsLen(buckets) = 0 \/ index < buckets.index_start
           \/ index > buckets.index_end
    THEN 0
    ELSE BucketsAt(buckets, index - buckets.index_start)

\* the second of two aggregate calls on a new aggregator is being made, with
\* two values of one sign
SecondOfTwoRecordings ==
    /\ expoLast.op = "aggregate"
    /\ expoInterval.aggregates = 1
    /\ expoInterval.collects = 0
    /\ expoInterval.merges = 0
    /\ expoLast'.op = "aggregate"
    /\ expoLast.value * expoLast'.value > 0

\* C18: recording v1 then v2: when both map to the same index at the current
\* scale that bucket's count rises by exactly 2 and the scale is unchanged;
\* when the index of v2 would make the span reach or exceed max_size, a
\* downscale happens, v2 is then recorded successfully and the span after
\* the downscale is below max_size.
C18_TwoRecordings ==
    [][SecondOfTwoRecordings =>
          LET v2 == expoLast'.value
              i1 == MapToIndex(expo.mapping, Abs(expoLast.value))
              i2 == MapToIndex(expo.mapping, Abs(v2))
              after == SetOf(expo', v2)
          IN  /\ i1 = i2 =>
                    /\ expoLast'.raised = ""
                    /\ CountAtIndex(after, i1) = 2
                    /\ expo'.mapping = expo.mapping
              /\ Abs(i2 - i1) >= expo.max_size =>
                    /\ expo'.mapping.scale < expo.mapping.scale
                    /\ expoLast'.raised = ""
                    /\ CountAtIndex(after,
                                    MapToIndex(expo'.mapping, Abs(v2))) >= 1
                    /\ IndexRangeFits(expo', after)]_vars

\* recording value needs a span that the backing array is too short for and
\* that is below max_size
NeedsGrow(self, value) ==
    /\ value # 0
    /\ LET buckets == SetOf(self, value)
           index == MapToIndex(self.mapping, Abs(value))
           span == IF index < buckets.index_start
                   THEN buckets.index_end - index
                   ELSE index - buckets.index_start
       IN  /\ BucketsLen(buckets) > 0
           /\ index < buckets.index_start \/ index > buckets.index_end
           /\ span >= BackingSize(buckets)
           /\ span < self.max_size

\* C19: a recording that needs the backing array grown keeps every count at
\* its logical index, for every index of the range before the grow, and the
\* recording completes.
C19_GrowKeepsCountsAndCompletes ==
    [][(expoLast'.op = "aggregate" /\ NeedsGrow(expo, expoLast'.value)) =>
          LET value == expoLast'.value
              before == SetOf(expo, value)
              after == SetOf(expo', value)
          IN  /\ expoLast'.raised = ""
              /\ \A i \in before.index_start..before.index_end :
                    CountAtIndex(after, i) = CountAtIndex(before, i)
              /\ CountAtIndex(after, MapToIndex(expo.mapping, Abs(value)))
                    = 1]_vars

\* C20: with DELTA output a collect with no measurement since the previous
\* collect returns null, and an emitted point's count, zero_count, sum and
\* bucket counts cover the measurements made since the previous collect only.
C20_DeltaCollectCoversIntervalOnly ==
    [][(expoLast'.op = "collect" /\ expo_temporality = DELTA) =>
          /\ expoInterval.count = 0 => IsNone(expoLast'.result)
          /\ ~IsNone(expoLast'.result) =>
                LET point == Get(expoLast'.result)
                IN  /\ point.count = expoInterval.count
                    /\ point.zero_count = expoInterval.zero_count
                    /\ point.sum = expoInterval.sum
                    /\ SeqSum(point.positive.bucket_counts)
                           + SeqSum(point.negative.bucket_counts)
                         = expoInterval.count - expoInterval.zero_count]_vars

\* C21: with CUMULATIVE output every emitted point's count is the number of
\* measurements aggregated since creation and its sum is their sum.
C21_CumulativePointCoversCreation ==
    (/\ expoLast.op = "collect"
     /\ expo_temporality = CUMULATIVE
     /\ ~IsNone(expoLast.result)) =>
        /\ Get(expoLast.result).count = expoInterval.ever_count
        /\ Get(expoLast.result).sum = expoInterval.ever_sum

\* current minus previous, pairwise
ZipSubtract(current, previous) ==
    [i \in 1..Min(Len(current), Len(previous)) |-> current[i] - previous[i]]

\* collect converts with the rule of its last branch: a point was emitted
\* before and the temporality asked for is neither that of the instrument
\* nor CUMULATIVE
CumulativeToDeltaConversion ==
    /\ expoLast'.op = "collect"
    /\ expo_temporality \notin {DELTA, CUMULATIVE}
    /\ ~IsNone(expo.previous_point)
    /\ ~IsNone(expoLast'.result)

\* C22: when collect converts cumulative to delta, the emitted bucket counts
\* are current minus previous, element by element, for the positive and for
\* the negative bucket set.
C22_CumulativeToDeltaSubtracts ==
    [][CumulativeToDeltaConversion =>
          LET current == Get(ExpoReadAndReset(expo, ExpoClock).read)
              previous == Get(expo.previous_point)
              point == Get(expoLast'.result)
          IN  /\ point.positive.bucket_counts
                    = ZipSubtract(current.positive.bucket_counts,
                                  previous.positive.bucket_counts)
              /\ point.negative.bucket_counts
                    = ZipSubtract(current.negative.bucket_counts,
                                  previous.negative.bucket_counts)]_vars

\* the indexes a bucket set holds
IndexesOf(buckets) ==
    IF BucketsLen(buckets) = 0 THEN {}
    ELSE buckets.index_start..buckets.index_end

\* the scale an operand of a merge brings: that of its mapping when it holds
\* a bucket, no constraint when it holds none
OperandScale(self) ==
    IF IndexesOf(self.positive) \cup IndexesOf(self.negative) = {}
    THEN MaxScale
    ELSE self.mapping.scale

\* the indexes of a bucket set of an operand, taken down to scale
IndexesAtScale(self, buckets, scale) ==
    {ShiftRight(j, OperandScale(self) - scale) : j \in IndexesOf(buckets)}

SpanFits(indexes, max_size) ==
    \A i, j \in indexes : i - j < max_size

\* both combined ranges span less than max_size at scale
FitsAtScale(a, b, scale) ==
    /\ SpanFits(IndexesAtScale(a, a.positive, scale)
                    \cup IndexesAtScale(b, b.positive, scale), a.max_size)
    /\ SpanFits(IndexesAtScale(a, a.negative, scale)
                    \cup IndexesAtScale(b, b.negative, scale), a.max_size)

\* the scales at or below those of both operands; at scale -10 every index of
\* the values recorded here is 0 or -1, so no lower scale is a candidate
CommonScales(a, b) ==
    {scale \in (0 - 10)..MaxScale :
        scale <= OperandScale(a) /\ scale <= OperandScale(b)}

LargestCommonScale(a, b) ==
    CHOOSE scale \in CommonScales(a, b) :
        /\ FitsAtScale(a, b, scale)
        /\ \A other \in CommonScales(a, b) :
              FitsAtScale(a, b, other) => other <= scale

\* the counts of the buckets of an operand that map onto index at scale
RECURSIVE CountsOnto(_, _, _, _, _)
CountsOnto(self, buckets, scale, index, indexes) ==
    IF indexes = {} THEN 0
    ELSE LET j == CHOOSE j \in indexes : TRUE
         IN  (IF ShiftRight(j, OperandScale(self) - scale) = index
              THEN CountAtIndex(buckets, j) ELSE 0)
                 + CountsOnto(self, buckets, scale, index, indexes \ {j})

BucketsAreSums(a, b, merged, mine, theirs, scale) ==
    \A index \in IndexesAtScale(a, mine, scale)
                     \cup IndexesAtScale(b, theirs, scale) :
        CountAtIndex(merged, index)
            = CountsOnto(a, mine, scale, index, IndexesOf(mine))
                  + CountsOnto(b, theirs, scale, index, IndexesOf(theirs))

\* C23: after a._merge_from(b) the count, zero_count and sum of a are the
\* sums of those of the operands, its min and max are those over both, its
\* scale is the largest common scale at which both combined ranges span less
\* than max_size, each of its buckets holds the sum of the counts of the
\* buckets of the operands that map onto it, and the merge does not fail.
C23_MergeAddsOperands ==
    [][expoLast'.op = "merge" =>
          LET a == expo
              b == Aggregated(ExpoNew(expo.max_size, 0), expoLast'.merged)
              scale == LargestCommonScale(a, b)
          IN  /\ expoLast'.raised = ""
              /\ expo'.count = a.count + b.count
              /\ expo'.zero_count = a.zero_count + b.zero_count
              /\ expo'.sum = a.sum + b.sum
              /\ (a.count # 0 /\ b.count # 0) =>
                    /\ expo'.min = Min(a.min, b.min)
                    /\ expo'.max = Max(a.max, b.max)
              /\ OperandScale(expo') # MaxScale =>
                    OperandScale(expo') = scale
              /\ BucketsAreSums(a, b, expo'.positive, a.positive, b.positive,
                                scale)
              /\ BucketsAreSums(a, b, expo'.negative, a.negative, b.negative,
                                scale)]_vars

\* the aggregation the documentation table of DefaultAggregation names
TableClass(instrument) ==
    IF instrument = "Histogram" THEN "_ExplicitBucketHistogramAggregation"
    ELSE IF instrument = "ObservableGauge" THEN "_LastValueAggregation"
    ELSE "_SumAggregation"

\* C24: DefaultAggregation gives every supported instrument the aggregation
\* of its documentation table: a sum for the four counters (monotonic for
\* Counter and ObservableCounter only, DELTA for the synchronous ones,
\* CUMULATIVE for the observable ones), the explicit bucket histogram for
\* Histogram and the last value for ObservableGauge.
C24_DefaultAggregationFollowsTable ==
    created.instrument \in SupportedInstruments =>
        /\ created.raised = ""
        /\ ~IsNone(created.result)
        /\ LET result == Get(created.result)
           IN  /\ result.class = TableClass(created.instrument)
               /\ result.class = "_SumAggregation" =>
                     /\ result.instrument_is_monotonic
                            = Some(created.instrument
                                       \in {"Counter", "ObservableCounter"})
                     /\ result.instrument_temporality
                            = Some(IF created.instrument
                                          \in {"Counter", "UpDownCounter"}
                                   THEN DELTA ELSE CUMULATIVE)

\* C25: a programming error is raised and leaves the state as it was:
\* DefaultAggregation raises for an instrument of none of the six kinds and
\* returns nothing, and _downscale raises for a negative change without
\* touching the bucket sets or the mapping, while a change of 0 returns with
\* the state unchanged.
C25_ProgrammingErrorsRaiseAndKeepState ==
    [][/\ (created' # created /\ created'.instrument \notin SupportedInstruments)
           => /\ created'.raised = "Exception"
              /\ IsNone(created'.result)
       /\ (rescaled' # rescaled /\ rescaled'.change < 0)
           => /\ rescaled'.raised = "Exception"
              /\ rescaled'.self = rescaled.self
       /\ (rescaled' # rescaled /\ rescaled'.change = 0)
           => /\ rescaled'.raised = ""
              /\ rescaled'.self = rescaled.self]_vars

\* _downscale has raised for a negative change on an aggregator that holds a
\* bucket, after an unsupported instrument reached DefaultAggregation
C25_Witness ==
    /\ created.instrument = "Instrument"
    /\ created.raised = "Exception"
    /\ rescaled.calls > 0
    /\ rescaled.change < 0
    /\ rescaled.raised = "Exception"
    /\ BucketsLen(rescaled.self.positive) > 0

\* a patcher is patched when the last underlying method it ran is _patch
Patched(class, patcher) ==
    /\ ran[class][patcher] # <<>>
    /\ ran[class][patcher][Len(ran[class][patcher])] = "patch"

\* the call just made was one the protocol accepts
AcceptedCall(class, patcher, method) ==
    IF method = "patch" THEN ~Patched(class, patcher)
    ELSE Patched(class, patcher)

\* C26: on every patcher the underlying _patch and _unpatch run in strict
\* alternation, _patch first: a patch() of a patcher that is not patched and
\* an unpatch() of one that is run the underlying method and return its
\* result; a patch() while patched and an unpatch() while not patched return
\* None, log a warning and run nothing.
C26_PatcherProtocol ==
    [][patchLast' # patchLast =>
          LET class == patchLast'.class
              patcher == patchLast'.patcher
              method == patchLast'.method
          IN  IF AcceptedCall(class, patcher, method)
              THEN /\ patchLast'.result = Some(UnderlyingResult(method))
                   /\ ~patchLast'.warned
                   /\ ran' = Ran(class, patcher, method)
              ELSE /\ patchLast'.result = None
                   /\ patchLast'.warned
                   /\ ran' = ran]_vars

\* C27: the global meter provider is set once: when it is set, by
\* set_meter_provider or by get_meter_provider from the environment, a later
\* set_meter_provider logs a warning and every call leaves the global as the
\* first one made it.
C27_GlobalProviderSetOnce ==
    [][/\ ~IsNone(meter_provider) => meter_provider' = meter_provider
       /\ (meterLast' # meterLast /\ meterLast'.op = "set_meter_provider"
              /\ ~IsNone(meter_provider)) => meterLast'.warned]_vars

\* set_meter_provider was called with another provider than the one the
\* global holds, and warned
C27_Witness ==
    /\ meterLast.op = "set_meter_provider"
    /\ meterLast.warned
    /\ ~IsNone(meter_provider)
    /\ Get(meter_provider) # meterLast.provider

\* a ProxyMeter forwards a create_ call
Forwards(id) ==
    /\ meterLast' # meterLast
    /\ meterLast'.op = "create"
    /\ proxy_meters'[id] # proxy_meters[id]

\* C28: a ProxyMeter forwards to its no-op meter while no global provider is
\* set, resolves a real meter of the global provider at its first use after
\* one is set, and forwards every later call to that same real meter.
C28_ProxyMeterSwitchesOnce ==
    [][\A id \in ProxyMeterIds :
          Forwards(id) =>
              LET before == proxy_meters[id].forwarded
                  meter == proxy_meters'[id].forwarded[Len(before) + 1]
              IN  /\ Len(proxy_meters'[id].forwarded) = Len(before) + 1
                  /\ IsNone(meter_provider) <=> meter = NoopMeter
                  /\ ~IsNone(meter_provider) =>
                        /\ meter.kind = "real"
                        /\ meter.provider = Get(meter_provider)
                  /\ (before # <<>> /\ before[Len(before)].kind = "real") =>
                        meter = before[Len(before)]]_vars

\* a ProxyMeter has forwarded to its no-op meter, then to a real meter, then
\* to a real meter again, while another meter was got from the provider in
\* between
C28_Witness ==
    \E id \in ProxyMeterIds :
        /\ Len(proxy_meters[id].forwarded) >= 3
        /\ proxy_meters[id].forwarded[1] = NoopMeter
        /\ proxy_meters[id].forwarded[2].kind = "real"
        /\ proxy_meters[id].forwarded[3].kind = "real"
        /\ meterLast.serial > 1

\* nothing was aggregated before the first i collections
NothingObservedUpTo(i) ==
    \A j \in 1..i : collected[j].aggregated.n = 0

\* C29: the sum aggregator of an observable instrument (instrument
\* temporality CUMULATIVE) that no observation has reached returns null from
\* every one of its consecutive collections, whichever temporality the reader
\* asks for, and stays as it was constructed.
C29_NoObservationNoPoint ==
    sum.instrument_temporality = CUMULATIVE =>
        /\ \A i \in 1..Len(collected) :
              NothingObservedUpTo(i) => IsNone(collected[i].result)
        /\ (NothingObservedUpTo(Len(collected)) /\ interval.n = 0) =>
              sum = SumAggregationNew(CUMULATIVE, 0)

\* three consecutive collections asking for DELTA of an aggregator of an
\* observable instrument that nothing was reported to
C29_Witness ==
    /\ sum.instrument_temporality = CUMULATIVE
    /\ preferred_temporality = DELTA
    /\ Len(collected) = MaxCollects
    /\ NothingObservedUpTo(Len(collected))
    /\ IsNone(collected[Len(collected)].result)

\* C30: observing cannot block collection for ever: whenever the collecting
\* thread is inside observe it comes out of it, and the pass it is in
\* completes.
C30_ObserveReturnsAndPassCompletes ==
    /\ (collection.pc = "next") ~> (collection.pc # "next")
    /\ (collection.pc # "idle") ~> (collection.pc = "idle")

\* the tag the wire format gives a value of a type
TagOf(type) ==
    IF type = "bool" THEN "bool_value"
    ELSE IF type = "int" THEN "int_value"
    ELSE IF type = "float" THEN "double_value"
    ELSE "string_value"

\* C31: every attribute of a span is emitted: a bool tagged bool, an int
\* int, a float double, a str string, and a value of another type tagged
\* string with its string representation, with a warning logged; none is
\* dropped.
C31_EveryAttributeIsEmitted ==
    translation.done =>
        /\ Len(translation.attributes) = Len(span_attributes)
        /\ \A key \in 1..Len(span_attributes) :
              /\ translation.attributes[key].key = key
              /\ translation.attributes[key].field
                     = TagOf(span_attributes[key].type)
              /\ translation.attributes[key].value = span_attributes[key].text

\* C32: SynchronousSumAggregation._collect returns a DELTA point whose value
\* is the sum of the measurements aggregated since the previous _collect or
\* creation, leaves the accumulator at 0, and the point does not start later
\* than it ends.
C32_PrototypeCollectReturnsInterval ==
    [][protoSeen'.collects # protoSeen.collects =>
          LET point == Get(protoSeen'.result)
          IN  /\ point.aggregation_temporality = DELTA
              /\ point.value = protoSeen.total
              /\ proto'.value = 0
              /\ point.start_time_unix_nano <= point.time_unix_nano]_vars

\* the counts of the indexes of a bucket set that by folds onto index
RECURSIVE FoldedOnto(_, _, _, _)
FoldedOnto(buckets, by, index, indexes) ==
    IF indexes = {} THEN 0
    ELSE LET i == CHOOSE i \in indexes : TRUE
         IN  (IF ShiftRight(i, by) = index
              THEN BucketsAt(buckets, i - buckets.index_start) ELSE 0)
                 + FoldedOnto(buckets, by, index, indexes \ {i})

\* C33: Buckets.downscale(by) folds every bucket set, rotated or not: the
\* ends of the range are the old ones shifted right by `by`, index_base is
\* index_start, every new index holds the sum of the old counts of the
\* indexes that shift onto it, the total is unchanged and the backing
\* positions outside the new range hold 0.
C33_DownscaleFoldsEveryLayout ==
    [][bucketCalls'.calls # bucketCalls.calls =>
          LET by == bucketCalls'.by
              old == bucket_set.index_start..bucket_set.index_end
          IN  /\ bucket_set'.index_start
                     = ShiftRight(bucket_set.index_start, by)
              /\ bucket_set'.index_end = ShiftRight(bucket_set.index_end, by)
              /\ bucket_set'.index_base = bucket_set'.index_start
              /\ \A j \in bucket_set'.index_start..bucket_set'.index_end :
                    BucketsAt(bucket_set', j - bucket_set'.index_start)
                        = FoldedOnto(bucket_set, by, j, old)
              /\ SeqSum(bucket_set'.backing) = SeqSum(bucket_set.backing)
              /\ \A position \in 1..Len(bucket_set'.backing) :
                    position > 1 + bucket_set'.index_end
                                   - bucket_set'.index_start
                        => bucket_set'.backing[position] = 0]_vars

\* a bucket set whose backing array is rotated and has a spare position, at
\* negative indexes, was folded two to one into fewer buckets
C33_Witness ==
    /\ bucketCalls.calls = 1
    /\ bucketCalls.by = 1
    /\ bucketCalls.bias > 0
    /\ bucket_set.index_start < 0
    /\ bucket_set.index_end = bucket_set.index_start + 1
    /\ Len(bucket_set.backing) = MaxBucketsLen + 1
    /\ SeqSum(bucket_set.backing) = 3 * MaxBucketCount

\* the span of the arguments of the call after k shifts
SpanFitsAfter(k) ==
    ShiftRight(scaling.arguments.high, k) - ShiftRight(scaling.arguments.low, k)
        < scaling.size

\* C34: for low <= high, negative or not, and size >= 2, _change_scale
\* returns, and what it returns is the smallest k >= 0 with
\* (high >> k) - (low >> k) < size.
C34_ChangeScaleReturnsSmallestChange ==
    /\ <>scaling.returned
    /\ [](scaling.returned =>
             /\ SpanFitsAfter(scaling.change)
             /\ \A k \in 0..(scaling.change - 1) : ~SpanFitsAfter(k))

\* a call with a negative low index has returned after more than one shift
C34_Witness ==
    /\ scaling.returned
    /\ scaling.arguments.low < 0
    /\ scaling.change >= 2

\* only aggregate calls were made on the histogram
AggregateCallsAlone == expoInterval.collects = 0 /\ expoInterval.merges = 0

\* C35: in every state reached by aggregate calls alone the counts of the
\* positive buckets, those of the negative buckets and zero_count add up to
\* the number of aggregate calls made, which is _count, and zero_count is
\* the number of aggregated values that were 0.
C35_CountsAddUpToCalls ==
    AggregateCallsAlone =>
        /\ expo.count = expoInterval.aggregates
        /\ SeqSum(expo.positive.backing) + SeqSum(expo.negative.backing)
               + expo.zero_count = expo.count
        /\ expo.zero_count = expoInterval.zero_count

\* C36: collect of the last value aggregator returns a point with the value
\* of the latest aggregate call made since the previous collect, and null
\* when none was made since the previous collect or creation; the
\* temporality asked for does not change what it returns.
C36_LastValueOfTheInterval ==
    [][lastSeen'.collects # lastSeen.collects =>
          /\ IsNone(lastSeen.recent) <=> IsNone(lastSeen'.result)
          /\ ~IsNone(lastSeen.recent) =>
                Get(lastSeen'.result).value = Get(lastSeen.recent)
          /\ \A temporality \in {UNSPECIFIED, DELTA, CUMULATIVE} :
                LastValueCollectResult(last_value, temporality,
                                       lastSeen'.calls).result
                    = lastSeen'.result]_vars

\* two collects in a row after two aggregate calls: the second found nothing
C36_Witness ==
    /\ lastSeen.calls = 4
    /\ lastSeen.collects = 2
    /\ IsNone(lastSeen.result)
    /\ IsNone(lastSeen.recent)
    /\ lastSeen.temporality = CUMULATIVE

(***************************************************************************)
(* C37: in a natural-DELTA sum aggregator that several threads feed while  *)
(* one thread collects, no measurement is lost or counted twice: the       *)
(* values of the emitted points plus the value left in the accumulator,    *)
(* plus what a collect in progress has taken out and not yet returned,     *)
(* equal the values of the aggregate calls that returned plus the values   *)
(* that calls in progress have already stored; with no call in progress    *)
(* the emitted points and the accumulator add up to the returned values.   *)
(***************************************************************************)
RECURSIVE StoredInProgress(_)
StoredInProgress(t) ==
    IF t = 0 THEN 0
    ELSE (IF workers[t].pc \in {"leave", "return"} THEN workers[t].value ELSE 0)
         + StoredInProgress(t - 1)

TakenInProgress ==
    IF workers[Collector].pc \in {"reset", "leave", "return"}
    THEN workers[Collector].value
    ELSE 0

InFlightOfReset ==
    IF workers[Collector].pc = "reset" THEN shared.value ELSE 0

C37_NoMeasurementLostOrDoubled ==
    /\ tally.emitted + shared.value + TakenInProgress - InFlightOfReset
          = tally.returned + StoredInProgress(NumProducers)
    /\ (\A t \in 1..Collector : workers[t].pc = "idle")
          => tally.emitted + shared.value = tally.returned

C37_Witness ==
    /\ \A t \in 1..Collector : workers[t].pc = "idle"
    /\ tally.aggregates = MaxProducerCalls
    /\ tally.collects = MaxCollectorCalls
    /\ tally.emitted > 0
    /\ shared.value > 0

(***************************************************************************)
(* C38: in an explicit-bucket histogram that several threads feed while    *)
(* one thread collects, no measurement is lost or torn: every emitted      *)
(* point has the sum of the values its buckets count, and with no call in  *)
(* progress the emitted counts plus the bucket counts left in the          *)
(* aggregation are the number of aggregate calls that returned, and the    *)
(* emitted sums plus the sum left are the sum of their values.             *)
(***************************************************************************)
ResidualBucketCounts == shared_hist.lists[shared_hist.bucket_counts]

C38_NoMeasurementLostOrTorn ==
    /\ ~hist_tally.torn
    /\ (\A t \in 1..Collector : hist_workers[t].pc = "idle")
          => /\ hist_tally.count + ResidualBucketCounts[1]
                   + ResidualBucketCounts[2] = hist_tally.returned
             /\ hist_tally.sum + shared_hist.sum = hist_tally.returned_sum

\* C39: the patched state of the protect decorator belongs to each patcher:
\* a patch() or unpatch() of a patcher of the protected class is rejected with
\* a warning exactly when the calls made on that same patcher reject it,
\* whatever was called on the other patchers of the class.
C39_ProtectStateIsPerInstance ==
    [][(patchLast' # patchLast /\ patchLast'.class = "decorator") =>
          (patchLast'.warned <=>
              ~AcceptedCall("decorator", patchLast'.patcher,
                            patchLast'.method))]_vars

\* C40: set_meter_provider is set-once under concurrency: once a
\* get_meter_provider has returned a real provider, every later
\* get_meter_provider returns that same provider, whatever the interleaving
\* of the two threads that call set_meter_provider with the thread that
\* calls get_meter_provider.
C40_ObservedProviderNeverChanges ==
    \A i \in 1..Len(observed) : observed[i] = observed[1]

====
